---- MODULE Spec2Model ----
(***************************************************************************)
(* A model of the quote-aggregation and routing subsystem of the           *)
(* cross-chain bridge aggregator:                                          *)
(*   - RouteDiscoveryEngine (app/services/route_discovery.py)              *)
(*   - MultiHopRouter       (app/services/multi_hop_router.py)             *)
(*   - the /quote endpoint  (app/api/v1/routes.py, app/core/security.py)   *)
(*                                                                         *)
(* Money is kept in integer units (engine: whole dollars; router: mills,   *)
(* thousandths of a dollar), weights in percent, so that the score         *)
(* comparisons are exact.                                                  *)
(***************************************************************************)
EXTENDS Integers, Sequences, FiniteSets, TLC

(***************************************************************************)
(* Bounds of the model.                                                    *)
(***************************************************************************)
\* number of registered adapters (self.bridges holds 10)
NumBridges == 2
\* number of discover_routes calls that can be in flight at once
NumCalls == 2
\* the wall clock stops here
MaxNow == 31
\* stand-in for the cache capacity (1000 in _cache_quotes)
CacheLimit == 1
\* stand-in for the number of entries removed on overflow (100 in _cache_quotes)
EvictCount == 1

(***************************************************************************)
(* Program constants.                                                      *)
(***************************************************************************)
\* self.cache_ttl_seconds = 30
CacheTtlSeconds == 30
\* default weights of _rank_routes, in percent
DefaultCostWeight == 40
DefaultSpeedWeight == 30
DefaultReliabilityWeight == 20
DefaultLiquidityWeight == 10
\* liquidity_score = 100.0
LiquidityScore == 100

Bridges == 1..NumBridges
Calls == 1..NumCalls
\* the caller of the sequential runs
SeqCalls == {1}
\* the clock advances by the TTL exactly, or by a second more
TickSteps == {CacheTtlSeconds, CacheTtlSeconds + 1}

(***************************************************************************)
(* RouteParams (bridges/base.py) and the requests of the model.            *)
(***************************************************************************)
MkParams(sc, user) ==
    [source_chain |-> sc, destination_chain |-> "arbitrum",
     source_token |-> "0xA0b8", destination_token |-> "0xFF97",
     amount |-> "1000000", user_address |-> user]

\* the same request with the source token address in lower case
WithLowerToken(p) == [p EXCEPT !.source_token = "0xa0b8"]

\* a request, and the request that differs from it in the case of the
\* source chain name only
Params == { MkParams("ethereum", "0xu1"), MkParams("Ethereum", "0xu1") }

\* a request, and the request that differs from it in the case of the
\* source token address only (the request schema lower-cases the chain
\* names, not the token addresses)
TokenCaseParams ==
    { MkParams("ethereum", "0xu1"), WithLowerToken(MkParams("ethereum", "0xu1")) }

\* preferences: a dict that may override some of the weights; <<>> is {} / None
NoPrefs == <<>>
CostPrefs == [cost_weight |-> 100, speed_weight |-> 0]
Prefs == { NoPrefs, CostPrefs }

\* dict.get(name, default)
DictGet(d, name, default) == IF name \in DOMAIN d THEN d[name] ELSE default

(***************************************************************************)
(* BridgeQuote: the fields the engine reads.  QuoteOf(b, v) is the quote   *)
(* adapter b produces when it answers with variant v.                      *)
(***************************************************************************)
MkQuote(b, cost, time, rate) ==
    [bridge_name |-> b, total_cost_usd |-> cost,
     estimated_time_seconds |-> time, success_rate |-> rate]

\* the first adapter answers with one of two quotes, the others with one
Variants(b) == IF b = 1 THEN {1, 2} ELSE {1}

QuoteOf(b, v) ==
    CASE b = 1 /\ v = 1 -> MkQuote(b, 8, 90, 100)
      [] b = 1 /\ v = 2 -> MkQuote(b, 0, 0, 100)
      [] b = 2          -> MkQuote(b, 5, 180, 100)
      [] OTHER          -> MkQuote(b, 6, 240, 100)

(***************************************************************************)
(* _get_cache_key: md5 of the JSON of the five fields, taken as they are.  *)
(* The hash is modelled as the tuple it is computed from.                  *)
(***************************************************************************)
GetCacheKey(p) ==
    << p.source_chain, p.destination_chain, p.source_token,
       p.destination_token, p.amount >>

(***************************************************************************)
(* The quote cache: a dict in insertion order, as a sequence of entries.   *)
(***************************************************************************)
KeyIndex(cache, key) ==
    IF \E i \in 1..Len(cache) : cache[i].key = key
    THEN CHOOSE i \in 1..Len(cache) : cache[i].key = key
    ELSE 0

RemoveAt(s, i) == [j \in 1..(Len(s) - 1) |-> IF j < i THEN s[j] ELSE s[j + 1]]

\* timedelta comparison of _get_cached_quote
\* variant: an entry expires as soon as its age reaches the TTL
IsExpiredAtTtl(entry, t) == t - entry.timestamp >= CacheTtlSeconds

IsExpired(entry, t) == t - entry.timestamp > CacheTtlSeconds

\* _get_cached_quote: the value returned (found = FALSE is None) and the
\* cache it leaves behind
\* variant: the lookup reports an expired entry as a miss and leaves it in
\* the cache
GetCachedQuoteKeepingExpired(cache, key, t) ==
    LET i == KeyIndex(cache, key) IN
    IF i = 0 \/ t - cache[i].timestamp > CacheTtlSeconds
    THEN [found |-> FALSE, quotes |-> <<>>, cache |-> cache]
    ELSE [found |-> TRUE, quotes |-> cache[i].quotes, cache |-> cache]

GetCachedQuote(cache, key, t) ==
    LET i == KeyIndex(cache, key) IN
    IF i = 0 THEN [found |-> FALSE, quotes |-> <<>>, cache |-> cache]
    ELSE IF IsExpired(cache[i], t)
         THEN [found |-> FALSE, quotes |-> <<>>, cache |-> RemoveAt(cache, i)]
         ELSE [found |-> TRUE, quotes |-> cache[i].quotes, cache |-> cache]

\* position of entry i in sorted(keys, key = timestamp): the sort is stable
SortedPos(cache, i) ==
    Cardinality({ j \in 1..Len(cache) :
                    \/ cache[j].timestamp < cache[i].timestamp
                    \/ cache[j].timestamp = cache[i].timestamp /\ j < i })

\* the cleanup of _cache_quotes: drop sorted_keys[:EvictCount]
\* variant: the cleanup starts one entry later
EvictOldestLate(cache) ==
    IF Len(cache) > CacheLimit + 1
    THEN SelectSeq(cache,
                   LAMBDA e : SortedPos(cache, KeyIndex(cache, e.key)) >= EvictCount)
    ELSE cache

EvictOldest(cache) ==
    IF Len(cache) > CacheLimit
    THEN SelectSeq(cache,
                   LAMBDA e : SortedPos(cache, KeyIndex(cache, e.key)) >= EvictCount)
    ELSE cache

\* _cache_quotes
CacheQuotes(cache, key, quotes, t) ==
    LET entry == [key |-> key, timestamp |-> t, quotes |-> quotes]
        i == KeyIndex(cache, key)
        stored == IF i = 0 THEN Append(cache, entry)
                  ELSE [cache EXCEPT ![i] = entry]
    IN EvictOldest(stored)

(***************************************************************************)
(* _rank_routes                                                            *)
(***************************************************************************)
\* variant: the defaults of the cost and speed weights are exchanged
WeightsSpeedFirst(preferences) ==
    [cost |-> DictGet(preferences, "cost_weight", DefaultSpeedWeight),
     speed |-> DictGet(preferences, "speed_weight", DefaultCostWeight),
     reliability |-> DictGet(preferences, "reliability_weight", DefaultReliabilityWeight),
     liquidity |-> DictGet(preferences, "liquidity_weight", DefaultLiquidityWeight)]

Weights(preferences) ==
    [cost |-> DictGet(preferences, "cost_weight", DefaultCostWeight),
     speed |-> DictGet(preferences, "speed_weight", DefaultSpeedWeight),
     reliability |-> DictGet(preferences, "reliability_weight", DefaultReliabilityWeight),
     liquidity |-> DictGet(preferences, "liquidity_weight", DefaultLiquidityWeight)]

Range(s) == { s[i] : i \in 1..Len(s) }

\* max(...) of a non-empty sequence
SeqMax(s) == CHOOSE m \in Range(s) : \A x \in Range(s) : x <= m

MaxCost(quotes) == SeqMax([i \in 1..Len(quotes) |-> quotes[i].total_cost_usd])
MaxTime(quotes) == SeqMax([i \in 1..Len(quotes) |-> quotes[i].estimated_time_seconds])

\* the divisions by max_cost and max_time raise ZeroDivisionError
RankRaises(quotes) ==
    quotes # <<>> /\ (MaxCost(quotes) = 0 \/ MaxTime(quotes) = 0)

\* total_score of a quote, times max_cost * max_time * 100 (> 0), so that
\* it is an integer:  cost_score = 100 * (1 - cost / max_cost), etc.
TotalScore(q, max_cost, max_time, w) ==
      100 * (max_cost - q.total_cost_usd) * max_time * w.cost
    + 100 * (max_time - q.estimated_time_seconds) * max_cost * w.speed
    + q.success_rate * max_cost * max_time * w.reliability
    + LiquidityScore * max_cost * max_time * w.liquidity

\* the score of the i-th quote of a batch
ScoreIn(quotes, i, preferences) ==
    TotalScore(quotes[i], MaxCost(quotes), MaxTime(quotes), Weights(preferences))

\* list.sort(key = score, reverse = True) is stable: a quote goes after the
\* quotes of greater score and after the earlier quotes of the same score
SortPosition(quotes, i, preferences) ==
    Cardinality({ j \in 1..Len(quotes) :
        \/ ScoreIn(quotes, j, preferences) > ScoreIn(quotes, i, preferences)
        \/ /\ ScoreIn(quotes, j, preferences) = ScoreIn(quotes, i, preferences)
           /\ j < i })

RankRoutes(quotes, preferences) ==
    IF quotes = <<>> THEN <<>>
    ELSE [p \in 1..Len(quotes) |->
            quotes[CHOOSE i \in 1..Len(quotes) :
                      SortPosition(quotes, i, preferences) = p - 1]]

(***************************************************************************)
(* The state of the discovery engine.                                      *)
(***************************************************************************)
VARIABLES
    now,          \* datetime.utcnow(), in seconds
    quote_cache,  \* RouteDiscoveryEngine.quote_cache
    pc,           \* per call: "idle", "created", "gather", "returned", "raised"
    args,         \* per call: route_params and preferences
    tasks,        \* per call, per adapter: the state of the adapter task
    finish_order, \* per call: the adapters in the order their tasks finished
    result,       \* per call: the list discover_routes returned
    lookup,       \* per call: what its cache lookup met
    invoked,      \* per call: the adapters whose get_quote was called
    published     \* per cache key: the last ranked list a batch produced, and when

engineVars == << now, quote_cache, pc, args, tasks, finish_order, result,
                 lookup, invoked, published >>

Keys == { GetCacheKey(p) : p \in Params \cup TokenCaseParams }

Pending == [st |-> "pending", v |-> 0]
NotStarted == [st |-> "none", v |-> 0]
NoArgs == [route_params |-> MkParams("ethereum", "0xu1"), preferences |-> NoPrefs]
NoRecord == [at |-> -1, quotes |-> <<>>]

TaskDone(t) == t.st # "pending"

InitEngine ==
    /\ now = 0
    /\ quote_cache = <<>>
    /\ pc = [c \in Calls |-> "idle"]
    /\ args = [c \in Calls |-> NoArgs]
    /\ tasks = [c \in Calls |-> [b \in Bridges |-> NotStarted]]
    /\ finish_order = [c \in Calls |-> <<>>]
    /\ result = [c \in Calls |-> <<>>]
    /\ lookup = [c \in Calls |-> "none"]
    /\ invoked = [c \in Calls |-> {}]
    /\ published = [k \in Keys |-> NoRecord]

\* a call runs without yielding from its entry to `await asyncio.gather`, and
\* from the end of the gather to its caller: meanwhile nothing else runs
NoneReturning == \A c \in Calls : pc[c] \in {"idle", "gather"}

\* what the lookup of a call met in the cache
LookupKind(cache, key, t) ==
    LET i == KeyIndex(cache, key) IN
    IF i = 0 THEN "absent"
    ELSE IF IsExpired(cache[i], t) THEN "expired" ELSE "fresh"

\* the adapters _query_all_bridges creates a task for
TasksCreated == Bridges

(***************************************************************************)
(* discover_routes, up to `await asyncio.gather(...)`: the cache lookup,   *)
(* and on a miss one task per adapter.                                     *)
(***************************************************************************)
StartCallE(c, p, pr) ==
    /\ NoneReturning
    /\ pc[c] = "idle"
    /\ LET key == GetCacheKey(p)
           got == GetCachedQuote(quote_cache, key, now)
           cachedTruthy == got.found /\ got.quotes # <<>>
       IN /\ quote_cache' = got.cache
          /\ args' = [args EXCEPT ![c] = [route_params |-> p, preferences |-> pr]]
          /\ lookup' = [lookup EXCEPT ![c] = LookupKind(quote_cache, key, now)]
          /\ IF cachedTruthy
             THEN /\ pc' = [pc EXCEPT ![c] = "returned"]
                  /\ result' = [result EXCEPT ![c] = got.quotes]
                  /\ invoked' = [invoked EXCEPT ![c] = {}]
                  /\ tasks' = tasks
             ELSE /\ pc' = [pc EXCEPT ![c] = "created"]
                  /\ result' = result
                  /\ invoked' = [invoked EXCEPT ![c] = TasksCreated]
                  /\ tasks' = [tasks EXCEPT ![c] =
                                 [b \in Bridges |->
                                    IF b \in TasksCreated THEN Pending ELSE NotStarted]]
    /\ UNCHANGED << now, finish_order, published >>

\* `await asyncio.gather(*tasks, return_exceptions=True)`: the call suspends
\* and the adapter tasks run
AwaitGatherE(c) ==
    /\ pc[c] = "created"
    /\ pc' = [pc EXCEPT ![c] = "gather"]
    /\ lookup' = [lookup EXCEPT ![c] = "none"]
    /\ UNCHANGED << now, quote_cache, args, tasks, finish_order, result,
                    invoked, published >>

(***************************************************************************)
(* _query_bridge_with_timeout: the adapter answers in time with a quote,   *)
(* with None, or by raising; or the wait_for timeout fires first.          *)
(***************************************************************************)
AdapterOutcomes(b) ==
    { [st |-> "quote", v |-> v] : v \in Variants(b) }
        \cup { [st |-> "no_route", v |-> 0], [st |-> "error", v |-> 0] }

AdapterReturnsE(c, b, o) ==
    /\ NoneReturning
    /\ pc[c] = "gather"
    /\ tasks[c][b] = Pending
    /\ tasks' = [tasks EXCEPT ![c][b] = o]
    /\ finish_order' = [finish_order EXCEPT ![c] = Append(@, b)]
    /\ UNCHANGED << now, quote_cache, pc, args, result, lookup, invoked, published >>

\* variant: get_quote is awaited without wait_for, no timeout ever fires
AdapterAwaitedWithoutTimeout(c, b) ==
    /\ FALSE
    /\ UNCHANGED << now, quote_cache, pc, args, tasks, finish_order, result,
                    lookup, invoked, published >>

AdapterTimeoutE(c, b) ==
    /\ NoneReturning
    /\ pc[c] = "gather"
    /\ tasks[c][b] = Pending
    /\ tasks' = [tasks EXCEPT ![c][b] = [st |-> "timeout", v |-> 0]]
    /\ finish_order' = [finish_order EXCEPT ![c] = Append(@, b)]
    /\ UNCHANGED << now, quote_cache, pc, args, result, lookup, invoked, published >>

\* the value _query_bridge_with_timeout returns: a quote, or None (<<>>)
TaskResult(b, t) == IF t.st = "quote" THEN <<QuoteOf(b, t.v)>> ELSE <<>>

\* _query_all_bridges after the gather: the results are in task order, and
\* the None results are filtered out
RECURSIVE CollectFrom(_, _)
CollectFrom(ts, b) ==
    IF b > NumBridges THEN <<>>
    ELSE TaskResult(b, ts[b]) \o CollectFrom(ts, b + 1)

\* variant: the results are collected as the tasks complete
RECURSIVE CollectInOrder(_, _)
CollectInOrder(ts, order) ==
    IF order = <<>> THEN <<>>
    ELSE TaskResult(order[1], ts[order[1]]) \o CollectInOrder(ts, Tail(order))

QueryAllBridgesAsCompleted(ts, order) == CollectInOrder(ts, order)

QueryAllBridges(ts, order) == CollectFrom(ts, 1)

(***************************************************************************)
(* discover_routes after the gather: rank, cache, return.                  *)
(***************************************************************************)
\* variant: the wait ends with the first task that is done
GatherDoneOnFirst(ts) == \E b \in Bridges : TaskDone(ts[b])

\* asyncio.gather returns when every task is done
GatherDone(ts) == \A b \in Bridges : TaskDone(ts[b])

\* variant: discover_routes without its `if not quotes: return []`, the
\* empty list is ranked (to itself) and cached
FinishCallCachingEmpty(c) ==
    /\ NoneReturning
    /\ pc[c] = "gather"
    /\ GatherDone(tasks[c])
    /\ LET quotes == QueryAllBridges(tasks[c], finish_order[c])
           key == GetCacheKey(args[c].route_params)
       IN IF RankRaises(quotes)
          THEN /\ pc' = [pc EXCEPT ![c] = "raised"]
               /\ result' = [result EXCEPT ![c] = <<>>]
               /\ UNCHANGED << quote_cache, published >>
          ELSE LET ranked == RankRoutes(quotes, args[c].preferences)
               IN /\ pc' = [pc EXCEPT ![c] = "returned"]
                  /\ result' = [result EXCEPT ![c] = ranked]
                  /\ quote_cache' = CacheQuotes(quote_cache, key, ranked, now)
                  /\ published' = [published EXCEPT ![key] =
                                     [at |-> now, quotes |-> ranked]]
    /\ UNCHANGED << now, args, tasks, finish_order, lookup, invoked >>

FinishCallE(c) ==
    /\ NoneReturning
    /\ pc[c] = "gather"
    /\ GatherDone(tasks[c])
    /\ LET quotes == QueryAllBridges(tasks[c], finish_order[c])
           key == GetCacheKey(args[c].route_params)
       IN IF quotes = <<>>
          THEN /\ pc' = [pc EXCEPT ![c] = "returned"]
               /\ result' = [result EXCEPT ![c] = <<>>]
               /\ UNCHANGED << quote_cache, published >>
          ELSE IF RankRaises(quotes)
          THEN /\ pc' = [pc EXCEPT ![c] = "raised"]
               /\ result' = [result EXCEPT ![c] = <<>>]
               /\ UNCHANGED << quote_cache, published >>
          ELSE LET ranked == RankRoutes(quotes, args[c].preferences)
               IN /\ pc' = [pc EXCEPT ![c] = "returned"]
                  /\ result' = [result EXCEPT ![c] = ranked]
                  /\ quote_cache' = CacheQuotes(quote_cache, key, ranked, now)
                  /\ published' = [published EXCEPT ![key] =
                                     [at |-> now, quotes |-> ranked]]
    /\ UNCHANGED << now, args, tasks, finish_order, lookup, invoked >>

\* the caller takes the returned list (or the exception)
DeliverE(c) ==
    /\ pc[c] \in {"returned", "raised"}
    /\ pc' = [pc EXCEPT ![c] = "idle"]
    /\ args' = [args EXCEPT ![c] = NoArgs]
    /\ tasks' = [tasks EXCEPT ![c] = [b \in Bridges |-> NotStarted]]
    /\ finish_order' = [finish_order EXCEPT ![c] = <<>>]
    /\ result' = [result EXCEPT ![c] = <<>>]
    /\ lookup' = [lookup EXCEPT ![c] = "none"]
    /\ invoked' = [invoked EXCEPT ![c] = {}]
    /\ UNCHANGED << now, quote_cache, published >>

\* time passes
TickE(d) ==
    /\ NoneReturning
    /\ now + d <= MaxNow
    /\ now' = now + d
    /\ UNCHANGED << quote_cache, pc, args, tasks, finish_order, result, lookup,
                    invoked, published >>

(***************************************************************************)
(* MultiHopRouter.  Costs are in mills (thousandths of a dollar): the      *)
(* clients compute amount * fee + gas, which is finer than a cent.         *)
(***************************************************************************)
\* number of bridge clients (self.bridges holds 10)
NumClients == 2
Clients == 1..NumClients

\* self.intermediate_chains
IntermediateChains == << "ethereum", "arbitrum", "optimism", "polygon", "base" >>

RouterSource == "ethereum"
RouterDestination == "arbitrum"
\* a request whose first hop leaves nothing, and one that survives both hops
\* the amount is a string the endpoint passes on as it is: a small one, a
\* large one, a negative one
Amounts == {1, 1000, -1000}
MaxHopsChoices == {1, 2}
\* the amount of the calls whose termination is examined
FairAmount == 1000

\* Optional values are sequences of length at most one
None == <<>>
Some(x) == <<x>>

\* a client returns None for a pair of chains it does not support: client 1
\* supports every pair, the others only the pair of the request
Supports(k, src, dst) ==
    k = 1 \/ (src = RouterSource /\ dst = RouterDestination)

ClientCosts(k) == IF k = 1 THEN {3500, 3502} ELSE {5000, 7000, 10000}

\* amount_out = str(int(amount_float * (1 - slippage))), slippage = 0.003;
\* int() truncates towards zero
AmountOut(amount) ==
    IF amount >= 0 THEN (amount * 997) \div 1000
    ELSE -(((-amount) * 997) \div 1000)

ClientQuote(k, amount, cost) ==
    [bridge_name |-> k, estimated_cost_usd |-> cost,
     estimated_time_minutes |-> 3 + k, amount_out |-> AmountOut(amount)]

\* _get_quote_safe: the quote of the client, or None (no quote, or the
\* client raised)
QuoteSafeOutcomes(k, src, dst, amount) ==
    {None} \cup
    (IF Supports(k, src, dst)
     THEN { Some(ClientQuote(k, amount, cost)) : cost \in ClientCosts(k) }
     ELSE {})

\* the results a gather over all the clients can bring
GatherOutcomes(src, dst, amount) ==
    { pick \in [Clients -> UNION { QuoteSafeOutcomes(k, src, dst, amount) : k \in Clients }] :
        \A k \in Clients : pick[k] \in QuoteSafeOutcomes(k, src, dst, amount) }

\* _get_direct_quotes: the results in client order, None filtered out
RECURSIVE ValidQuotesFrom(_, _)
ValidQuotesFrom(pick, k) ==
    IF k > NumClients THEN <<>> ELSE pick[k] \o ValidQuotesFrom(pick, k + 1)

GetDirectQuotes(pick) == ValidQuotesFrom(pick, 1)

\* min(quotes, key = estimated_cost_usd): the first of the cheapest
MinByCost(quotes) ==
    quotes[CHOOSE i \in 1..Len(quotes) :
             \A j \in 1..Len(quotes) :
                 \/ quotes[i].estimated_cost_usd < quotes[j].estimated_cost_usd
                 \/ /\ quotes[i].estimated_cost_usd = quotes[j].estimated_cost_usd
                    /\ i <= j]

\* round(x, 2) of a non-negative amount of mills, half to even
Round2(x) ==
    LET q == x \div 10
        r == x % 10
    IN IF r < 5 THEN 10 * q
       ELSE IF r > 5 THEN 10 * (q + 1)
       ELSE IF q % 2 = 0 THEN 10 * q ELSE 10 * (q + 1)

MkHop(src, dst, amount_in, quote) ==
    [source_chain |-> src, destination_chain |-> dst,
     bridge_name |-> quote.bridge_name,
     amount_in |-> amount_in, amount_out |-> quote.amount_out,
     estimated_cost_usd |-> quote.estimated_cost_usd,
     estimated_time_minutes |-> quote.estimated_time_minutes]

\* variant: the second hop records the amount of the request as its input
MkTwoHopRouteOnRequestAmount(src, mid, dst, amount, hop1_best, hop2_best) ==
    LET hop1 == MkHop(src, mid, amount, hop1_best)
        hop2 == MkHop(mid, dst, amount, hop2_best)
    IN [hops |-> << hop1, hop2 >>,
        total_cost_usd |-> hop1.estimated_cost_usd + hop2.estimated_cost_usd,
        total_time_minutes |-> hop1.estimated_time_minutes + hop2.estimated_time_minutes,
        final_amount |-> hop2.amount_out]

\* variant: the totals are those of the last hop
MkTwoHopRouteLastHopTotals(src, mid, dst, amount, hop1_best, hop2_best) ==
    LET hop1 == MkHop(src, mid, amount, hop1_best)
        hop2 == MkHop(mid, dst, hop1_best.amount_out, hop2_best)
    IN [hops |-> << hop1, hop2 >>,
        total_cost_usd |-> hop2.estimated_cost_usd,
        total_time_minutes |-> hop2.estimated_time_minutes,
        final_amount |-> hop2.amount_out]

\* the MultiHopRoute _try_two_hop_route builds from the best quote of each hop
MkTwoHopRoute(src, mid, dst, amount, hop1_best, hop2_best) ==
    LET hop1 == MkHop(src, mid, amount, hop1_best)
        hop2 == MkHop(mid, dst, hop1_best.amount_out, hop2_best)
    IN [hops |-> << hop1, hop2 >>,
        total_cost_usd |-> hop1.estimated_cost_usd + hop2.estimated_cost_usd,
        total_time_minutes |-> hop1.estimated_time_minutes + hop2.estimated_time_minutes,
        final_amount |-> hop2.amount_out]

\* variant: the first route built is taken
FirstRouteBuilt(routes) == routes[1]

\* min(multi_hop_routes, key = total_cost_usd)
MinByTotalCost(routes) ==
    routes[CHOOSE i \in 1..Len(routes) :
             \A j \in 1..Len(routes) :
                 \/ routes[i].total_cost_usd < routes[j].total_cost_usd
                 \/ /\ routes[i].total_cost_usd = routes[j].total_cost_usd
                    /\ i <= j]

\* _format_multi_hop_route
FormatMultiHopRoute(route) ==
    [route_type |-> "multi-hop", hops |-> route.hops,
     total_hops |-> Len(route.hops),
     total_cost_usd |-> route.total_cost_usd,
     total_time_minutes |-> route.total_time_minutes,
     final_amount |-> route.final_amount]

MkResult(type, best, alts, checked, direct_savings, savings) ==
    [route_type |-> type, best_route |-> best, alternatives |-> alts,
     multi_hop_checked |-> checked,
     direct_savings_usd |-> direct_savings, savings_usd |-> savings]

\* direct_best of find_best_route
DirectBest(quotes) == IF quotes = <<>> THEN None ELSE Some(MinByCost(quotes))

\* the return of find_best_route when the multi-hop search is not made
DirectOnlyResult(quotes) ==
    MkResult("direct", DirectBest(quotes), <<>>, FALSE, None, None)

\* variant: a direct quote wins only when strictly cheaper
DirectStrictlyCheaper(direct_best, best_multi_hop) ==
    /\ direct_best # None
    /\ direct_best[1].estimated_cost_usd < best_multi_hop.total_cost_usd

\* `if direct_best and direct_cost <= best_multi_hop.total_cost_usd`
DirectIsBetter(direct_best, best_multi_hop) ==
    /\ direct_best # None
    /\ direct_best[1].estimated_cost_usd <= best_multi_hop.total_cost_usd

\* the return of find_best_route after the multi-hop search
CompareRoutes(quotes, routes) ==
    LET direct_best == DirectBest(quotes) IN
    IF routes = <<>>
    THEN MkResult("direct", direct_best, <<>>, TRUE, None, None)
    ELSE LET best_multi_hop == MinByTotalCost(routes) IN
         IF DirectIsBetter(direct_best, best_multi_hop)
         THEN MkResult("direct", direct_best,
                       << FormatMultiHopRoute(best_multi_hop) >>, TRUE,
                       Some(Round2(best_multi_hop.total_cost_usd
                                     - direct_best[1].estimated_cost_usd)),
                       None)
         ELSE MkResult("multi-hop", Some(FormatMultiHopRoute(best_multi_hop)),
                       direct_best, TRUE, None,
                       IF direct_best # None
                       THEN Some(Round2(direct_best[1].estimated_cost_usd
                                          - best_multi_hop.total_cost_usd))
                       ELSE None)

VARIABLES
    rpc,            \* find_best_route: "idle", "direct", "hop1", "hop2", "returned",
                    \* or "blocked" in a gather that cannot complete
    rargs,          \* amount, max_hops, include_multi_hop
    direct_quotes,  \* the quotes of the direct route
    hop_index,      \* the position of the search in intermediate_chains
    hop1_best,      \* the best quote of the first hop, while the second is awaited
    routes,         \* the two-hop routes built so far
    rresult,        \* the dictionary find_best_route returned
    skipped         \* the intermediates _try_two_hop_route returned None for,
                    \* each with the return statement taken

routerVars == << rpc, rargs, direct_quotes, hop_index, hop1_best, routes, rresult,
                skipped >>

NoRouterArgs == [amount |-> 0, max_hops |-> 0, include_multi_hop |-> FALSE]
NoResult == MkResult("none", None, <<>>, FALSE, None, None)

InitRouter ==
    /\ rpc = "idle"
    /\ rargs = NoRouterArgs
    /\ direct_quotes = <<>>
    /\ hop_index = 0
    /\ hop1_best = None
    /\ routes = <<>>
    /\ rresult = NoResult
    /\ skipped = {}

\* the loop of _find_multi_hop_routes skips the source and the destination:
\* the first position from i on that is tried, or one past the end
RECURSIVE NextIntermediate(_)
NextIntermediate(i) ==
    IF i > Len(IntermediateChains) THEN i
    ELSE IF IntermediateChains[i] \in {RouterSource, RouterDestination}
         THEN NextIntermediate(i + 1)
         ELSE i

\* find_best_route is called and awaits the direct quotes
FindBestRouteE(amount, max_hops, include_multi_hop) ==
    /\ rpc = "idle"
    /\ rpc' = "direct"
    /\ rargs' = [amount |-> amount, max_hops |-> max_hops,
                 include_multi_hop |-> include_multi_hop]
    /\ UNCHANGED << direct_quotes, hop_index, hop1_best, routes, rresult, skipped >>

\* the search goes on with the next intermediate, or, the loop over, the
\* routes are compared and find_best_route returns
ContinueSearch(quotes, found, i) ==
    /\ routes' = found
    /\ hop_index' = i
    /\ hop1_best' = None
    /\ IF i > Len(IntermediateChains)
       THEN /\ rpc' = "returned"
            /\ rresult' = CompareRoutes(quotes, found)
       ELSE /\ rpc' = "hop1"
            /\ rresult' = rresult

\* the gather of the direct quotes returns
DirectQuotesReturnE(pick) ==
    /\ rpc = "direct"
    /\ LET quotes == GetDirectQuotes(pick) IN
       /\ direct_quotes' = quotes
       /\ IF ~rargs.include_multi_hop \/ rargs.max_hops < 2
          THEN /\ rpc' = "returned"
               /\ rresult' = DirectOnlyResult(quotes)
               /\ UNCHANGED << hop_index, hop1_best, routes >>
          ELSE ContinueSearch(quotes, <<>>, NextIntermediate(1))
    /\ UNCHANGED << rargs, skipped >>

\* _try_two_hop_route: the quotes of the first hop arrive
FirstHopReturnsE(pick) ==
    /\ rpc = "hop1"
    /\ LET hop1_quotes == GetDirectQuotes(pick) IN
       IF hop1_quotes = <<>> \/ MinByCost(hop1_quotes).amount_out = 0
       THEN /\ ContinueSearch(direct_quotes, routes, NextIntermediate(hop_index + 1))
            /\ skipped' = skipped \cup
                   { [at |-> hop_index,
                      why |-> IF hop1_quotes = <<>> THEN "no_hop1_quote"
                              ELSE "zero_output"] }
       ELSE /\ rpc' = "hop2"
            /\ hop1_best' = Some(MinByCost(hop1_quotes))
            /\ UNCHANGED << hop_index, routes, rresult, skipped >>
    /\ UNCHANGED << rargs, direct_quotes >>

\* variant: _try_two_hop_route without its try/except, an exception ends
\* find_best_route
SecondHopRaisesThrough(pick, raises) ==
    /\ rpc = "hop2"
    /\ LET hop2_quotes == GetDirectQuotes(pick)
           mid == IntermediateChains[hop_index]
       IN IF raises
          THEN /\ rpc' = "returned"
               /\ rresult' = NoResult
               /\ UNCHANGED << hop_index, hop1_best, routes, skipped >>
          ELSE /\ ContinueSearch(direct_quotes,
                                 IF hop2_quotes = <<>> THEN routes
                                 ELSE Append(routes,
                                        MkTwoHopRoute(RouterSource, mid, RouterDestination,
                                                      rargs.amount, hop1_best[1],
                                                      MinByCost(hop2_quotes))),
                                 NextIntermediate(hop_index + 1))
               /\ skipped' = IF hop2_quotes # <<>> THEN skipped
                              ELSE skipped \cup { [at |-> hop_index, why |-> "no_hop2_quote"] }
    /\ UNCHANGED << rargs, direct_quotes >>

\* _try_two_hop_route: the quotes of the second hop arrive and the route is
\* built; an exception raised on the way (a quote with a field of another
\* type than the clients at hand return) is caught and None returned
SecondHopReturnsE(pick, raises) ==
    /\ rpc = "hop2"
    /\ LET hop2_quotes == GetDirectQuotes(pick)
           mid == IntermediateChains[hop_index]
           built == hop2_quotes # <<>> /\ ~raises
           found == IF ~built THEN routes
                    ELSE Append(routes,
                                MkTwoHopRoute(RouterSource, mid, RouterDestination,
                                              rargs.amount, hop1_best[1],
                                              MinByCost(hop2_quotes)))
       IN /\ ContinueSearch(direct_quotes, found, NextIntermediate(hop_index + 1))
          /\ skipped' = IF built THEN skipped
                         ELSE skipped \cup
                                { [at |-> hop_index,
                                   why |-> IF hop2_quotes = <<>> THEN "no_hop2_quote"
                                           ELSE "exception"] }
    /\ UNCHANGED << rargs, direct_quotes >>

\* a client's get_quote never returns: _get_quote_safe awaits it without a
\* deadline and the gather waits for every task, so the await of
\* find_best_route cannot complete
ClientNeverReturnsE ==
    /\ rpc \in { "direct", "hop1", "hop2" }
    /\ rpc' = "blocked"
    /\ UNCHANGED << rargs, direct_quotes, hop_index, hop1_best, routes, rresult,
                    skipped >>

\* the caller takes the result
RouterDeliverE ==
    /\ rpc = "returned"
    /\ rpc' = "idle"
    /\ rargs' = NoRouterArgs
    /\ direct_quotes' = <<>>
    /\ hop_index' = 0
    /\ hop1_best' = None
    /\ routes' = <<>>
    /\ rresult' = NoResult
    /\ skipped' = {}

(***************************************************************************)
(* The quote endpoint: UsageTrackingMiddleware, the get_api_key dependency *)
(* and get_route_quote, one request at a time.                             *)
(***************************************************************************)
\* the requests served are at most this many
MaxRequests == 3
\* stand-in for api_key.rate_limit_per_minute
RateLimitPerMinute == 2

\* the discover_routes call of the endpoint
ApiCaller == CHOOSE c \in SeqCalls : TRUE

\* the one key of the api_keys table
KnownKey == "k1"
\* the X-API-Key header: absent, empty, the known key, a key not in the table
Headers == { None, Some(""), Some(KnownKey), Some("k2") }

\* `if api_key_str`
Truthy(header) == header # None /\ header[1] # ""

\* db.query(APIKey).filter(APIKey.key == api_key_str).first()
KeyFound(header) == header = Some(KnownKey)

VARIABLES
    apc,            \* "idle", "auth", "endpoint", "discovering", "responded"
    req,            \* the request being served
    status,         \* the status code of the response, 0 before there is one
    key_status,     \* the row of the known key: "active" or "revoked"
    rate_count,     \* the counters increment_usage increments
    total_requests  \* api_key.total_requests

apiVars == << apc, req, status, key_status, rate_count, total_requests >>

NoRequest ==
    [header |-> None, params |-> MkParams("ethereum", "0xu1"),
     rate_count0 |-> 0, total_requests0 |-> 0, discovery |-> "not_called"]

InitApi ==
    /\ apc = "idle"
    /\ req = NoRequest
    /\ status = 0
    /\ key_status = "active"
    /\ rate_count = 0
    /\ total_requests = 0

\* UsageTrackingMiddleware.dispatch up to call_next
ReceiveRequestE(header, p) ==
    /\ apc = "idle"
    /\ total_requests < MaxRequests
    /\ apc' = "auth"
    /\ req' = [header |-> header, params |-> p,
               rate_count0 |-> rate_count, total_requests0 |-> total_requests,
               discovery |-> "not_called"]
    /\ status' = 0
    /\ UNCHANGED << key_status, rate_count, total_requests >>

\* revoke_api_key: the known key is revoked, between two requests
RevokeKeyE ==
    /\ apc = "idle"
    /\ key_status = "active"
    /\ key_status' = "revoked"
    /\ UNCHANGED << apc, req, status, rate_count, total_requests >>

\* the status get_api_key raises, 0 when it returns the key.  The known key
\* has no expiry date, no IP whitelist and no endpoint restriction, and is
\* inactive only once revoked.
AuthStatus(header, key, count) ==
    IF ~Truthy(header) THEN 401
    ELSE IF ~KeyFound(header) THEN 401
    ELSE IF key = "revoked" THEN 403
    ELSE IF count >= RateLimitPerMinute THEN 429
    ELSE 0

\* variant: the usage is counted before the checks
GetApiKeyCountingFirst ==
    /\ apc = "auth"
    /\ rate_count' = rate_count + 1
    /\ LET code == AuthStatus(req.header, key_status, rate_count) IN
       IF code # 0
       THEN status' = code /\ apc' = "responded"
       ELSE status' = status /\ apc' = "endpoint"
    /\ UNCHANGED << req, key_status, total_requests >>

\* get_api_key
GetApiKeyE ==
    /\ apc = "auth"
    /\ LET code == AuthStatus(req.header, key_status, rate_count) IN
       IF code # 0
       THEN /\ status' = code
            /\ apc' = "responded"
            /\ UNCHANGED rate_count
       ELSE /\ rate_count' = rate_count + 1
            /\ apc' = "endpoint"
            /\ UNCHANGED status
    /\ UNCHANGED << req, key_status, total_requests >>

\* the status get_route_quote answers with: the HTTPException(404) of an
\* empty list is raised inside the try block, whose `except Exception`
\* turns every exception into a 500
QuoteStatus(raised, quotes) ==
    LET in_try == IF raised THEN 500 ELSE IF quotes = <<>> THEN 404 ELSE 200
    IN IF in_try # 200 THEN 500 ELSE 200

\* get_route_quote up to `await discover_routes`
EndpointCallsDiscoveryE ==
    /\ apc = "endpoint"
    /\ StartCallE(ApiCaller, req.params, NoPrefs)
    /\ apc' = "discovering"
    /\ req' = [req EXCEPT !.discovery = "awaited"]
    /\ UNCHANGED << status, key_status, rate_count, total_requests >>

\* get_route_quote from the return of discover_routes on
EndpointRespondsE ==
    /\ apc = "discovering"
    /\ DeliverE(ApiCaller)
    /\ status' = QuoteStatus(pc[ApiCaller] = "raised", result[ApiCaller])
    /\ apc' = "responded"
    /\ req' = [req EXCEPT !.discovery =
                 IF pc[ApiCaller] = "raised" THEN "raised"
                 ELSE IF result[ApiCaller] = <<>> THEN "no_quotes" ELSE "quotes"]
    /\ UNCHANGED << key_status, rate_count, total_requests >>

\* UsageTrackingMiddleware.dispatch after call_next
TrackUsageE ==
    /\ apc = "responded"
    /\ apc' = "idle"
    /\ total_requests' = IF Truthy(req.header) /\ KeyFound(req.header)
                         THEN total_requests + 1 ELSE total_requests
    /\ UNCHANGED << req, status, key_status, rate_count >>

(***************************************************************************)
(* ReliabilityScorer (app/services/reliability_scorer.py) and the two      *)
(* tables it reads.  Scores are in thousandths of a point, the overall     *)
(* score in 1/100000 of a point (the weights are in percent); a missing    *)
(* (None) time or cost of a transaction is 0, which the code, testing      *)
(* `if t.actual_time_minutes`, does not tell from None.  The age of a row  *)
(* is the time from its created_at / calculated_at to the scoring, in      *)
(* hours.                                                                  *)
(***************************************************************************)
\* rows of transaction_history
MaxTx == 3
\* rows of bridge_performance_metrics
MaxMetrics == 2

\* self.weights, in percent
WeightSuccessRate == 40
WeightTimeConsistency == 20
WeightCostConsistency == 15
WeightUptime == 15
WeightVolume == 10
\* timedelta(days=7) of _calculate_volume_score, in hours
VolumeWindowHours == 168

ScorerBridges == { "across", "hop" }
\* the `hours` of a scoring (the endpoint admits 24 to 720)
HoursChoices == { 24, 48, 65 }
\* what fails during a scoring: nothing, the transaction query, a metric query
ScorerFaults == { "none", "query", "trend" }

MkTx(bridge, st, time, cost, age) ==
    [selected_bridge |-> bridge, status |-> st, actual_time_minutes |-> time,
     actual_cost_usd |-> cost, age_hours |-> age]

TxKinds ==
    { MkTx("across", "completed", 5, 2, 0),
      MkTx("across", "completed", 20, 8, 30),
      MkTx("across", "failed", 0, 0, 1),
      MkTx("hop", "completed", 5, 2, 100) }

MkMetric(bridge, score, age) ==
    [bridge_name |-> bridge, reliability_score |-> score, age_hours |-> age]

MetricKinds ==
    { MkMetric("across", 90, 0), MkMetric("across", 70, 0),
      MkMetric("across", 80, 30), MkMetric("across", 90, 30) }

RECURSIVE SumOf(_)
SumOf(s) == IF s = <<>> THEN 0 ELSE s[1] + SumOf(Tail(s))

\* the integer part of the square root
RECURSIVE ISqrt(_)
ISqrt(n) ==
    IF n < 2 THEN n
    ELSE LET small == 2 * ISqrt(n \div 4)
         IN IF (small + 1) * (small + 1) > n THEN small ELSE small + 1

Min2(a, b) == IF a < b THEN a ELSE b
Max2(a, b) == IF a > b THEN a ELSE b

\* the query of calculate_comprehensive_score: the rows of the bridge with
\* created_at >= cutoff
WindowTransactions(txs, bridge_name, hours) ==
    SelectSeq(txs, LAMBDA t : t.selected_bridge = bridge_name /\ t.age_hours <= hours)

Completed(txs) == SelectSeq(txs, LAMBDA t : t.status = "completed")

\* _calculate_success_score
CalculateSuccessScore(txs) ==
    IF txs = <<>> THEN 0
    ELSE IF Len(Completed(txs)) * 100 >= 98 * Len(txs) THEN 100000
    ELSE (Len(Completed(txs)) * 100000) \div Len(txs)

\* the score of a list of at least three values of positive average:
\* max(0, 100 - 2 * cv), cv = 100 * std_dev / avg, where
\* std_dev / avg = sqrt(n * sum(v^2) - sum(v)^2) / sum(v)
ConsistencyScore(values) ==
    LET n == Len(values)
        total == SumOf(values)
        squares == SumOf([i \in 1..n |-> values[i] * values[i]])
        spread == n * squares - total * total
    IN IF n < 3 \/ total = 0 THEN 50000
       ELSE Max2(0, 100000 - (200 * ISqrt(spread * 1000000)) \div total)

\* _calculate_time_consistency_score
CalculateTimeConsistencyScore(txs) ==
    LET timed == SelectSeq(txs, LAMBDA t : t.status = "completed"
                                            /\ t.actual_time_minutes # 0)
    IN ConsistencyScore([i \in 1..Len(timed) |-> timed[i].actual_time_minutes])

\* _calculate_cost_consistency_score
CalculateCostConsistencyScore(txs) ==
    LET priced == SelectSeq(txs, LAMBDA t : t.actual_cost_usd # 0)
    IN ConsistencyScore([i \in 1..Len(priced) |-> priced[i].actual_cost_usd])

\* _calculate_uptime_score: the share of the hourly buckets with a row in
\* them, times 1.2, at most 100
CalculateUptimeScore(txs, hours) ==
    IF txs = <<>> THEN 0
    ELSE LET active_hours == Cardinality({ txs[i].age_hours : i \in
                                 { j \in 1..Len(txs) : txs[j].age_hours < hours } })
         IN Min2(100000, (active_hours * 120000) \div hours)

\* func.sum(actual_cost_usd) over the rows of the last seven days
Volume(rows) ==
    LET recent == SelectSeq(rows, LAMBDA t : t.age_hours <= VolumeWindowHours)
    IN SumOf([i \in 1..Len(recent) |-> recent[i].actual_cost_usd])

\* variant: ten times the share, without the cap
CalculateVolumeScoreUncapped(txs, all_rows) ==
    LET bridge_name == txs[1].selected_bridge
        bridge_volume ==
            Volume(SelectSeq(all_rows, LAMBDA t : t.selected_bridge = bridge_name))
        total_volume == IF Volume(all_rows) = 0 THEN 1 ELSE Volume(all_rows)
    IN (bridge_volume * 1000000) \div total_volume

\* _calculate_volume_score: ten times the share of the bridge in the volume
\* of all the bridges, at most 100
CalculateVolumeScore(txs, all_rows) ==
    LET bridge_name == txs[1].selected_bridge
        bridge_volume ==
            Volume(SelectSeq(all_rows, LAMBDA t : t.selected_bridge = bridge_name))
        total_volume == IF Volume(all_rows) = 0 THEN 1 ELSE Volume(all_rows)
    IN Min2(100000, (bridge_volume * 1000000) \div total_volume)

\* the weighted overall score, in 1/100000 of a point
OverallScore(txs, all_rows, hours) ==
      CalculateSuccessScore(txs) * WeightSuccessRate
    + CalculateTimeConsistencyScore(txs) * WeightTimeConsistency
    + CalculateCostConsistencyScore(txs) * WeightCostConsistency
    + CalculateUptimeScore(txs, hours) * WeightUptime
    + CalculateVolumeScore(txs, all_rows) * WeightVolume

\* _get_rating, of a score given in units of 1/unit of a point
\* variant: the thresholds are exclusive
GetRatingAbove(score, unit) ==
    IF score > 90 * unit THEN "A+"
    ELSE IF score > 85 * unit THEN "A"
    ELSE IF score > 80 * unit THEN "A-"
    ELSE IF score > 75 * unit THEN "B+"
    ELSE IF score > 70 * unit THEN "B"
    ELSE IF score > 65 * unit THEN "B-"
    ELSE IF score > 60 * unit THEN "C+"
    ELSE IF score > 55 * unit THEN "C"
    ELSE IF score > 50 * unit THEN "C-"
    ELSE "D"

GetRating(score, unit) ==
    IF score >= 90 * unit THEN "A+"
    ELSE IF score >= 85 * unit THEN "A"
    ELSE IF score >= 80 * unit THEN "A-"
    ELSE IF score >= 75 * unit THEN "B+"
    ELSE IF score >= 70 * unit THEN "B"
    ELSE IF score >= 65 * unit THEN "B-"
    ELSE IF score >= 60 * unit THEN "C+"
    ELSE IF score >= 55 * unit THEN "C"
    ELSE IF score >= 50 * unit THEN "C-"
    ELSE "D"

\* round(x / step) of a non-negative x, half to even
RoundHalfEven(x, step) ==
    LET q == x \div step
        r == x % step
    IN IF 2 * r < step THEN q
       ELSE IF 2 * r > step THEN q + 1
       ELSE IF q % 2 = 0 THEN q ELSE q + 1

\* _calculate_trend: the average reliability_score of the metrics of the
\* current period against that of the period before it
CalculateTrend(ms, bridge_name, hours, fault) ==
    LET current == SelectSeq(ms, LAMBDA m : m.bridge_name = bridge_name
                                             /\ m.age_hours <= hours)
        previous == SelectSeq(ms, LAMBDA m : m.bridge_name = bridge_name
                                              /\ m.age_hours <= 2 * hours
                                              /\ m.age_hours > hours)
        cur_sum == SumOf([i \in 1..Len(current) |-> current[i].reliability_score])
        prev_sum == SumOf([i \in 1..Len(previous) |-> previous[i].reliability_score])
        \* (current_avg - previous_avg) * len(current) * len(previous)
        diff == cur_sum * Len(previous) - prev_sum * Len(current)
        five == 5 * Len(current) * Len(previous)
    IN IF fault = "trend" THEN "unknown"
       ELSE IF current = <<>> \/ previous = <<>> THEN "insufficient_data"
       ELSE IF diff > five THEN "improving"
       ELSE IF diff < -five THEN "declining"
       ELSE "stable"

\* the dictionaries calculate_comprehensive_score returns: overall_score in
\* hundredths of a point, the component scores (<<>> is {}) as well
MkScore(bridge_name, overall, rating, trend, components, total) ==
    [bridge_name |-> bridge_name, overall_score |-> overall, rating |-> rating,
     trend |-> trend, component_scores |-> components,
     total_transactions |-> total]

\* variant: a bridge without transactions is given a middling default
DefaultScoreResponse(bridge_name) ==
    MkScore(bridge_name, 5000, "C-", "stable", <<>>, Some(0))

\* _no_data_response
NoDataResponse(bridge_name) ==
    MkScore(bridge_name, 0, "N/A", "insufficient_data", <<>>, Some(0))

\* _error_response
ErrorResponse(bridge_name) ==
    MkScore(bridge_name, 0, "ERROR", "unknown", <<>>, None)

ComponentScores(txs, all_rows, hours) ==
    [success_rate |-> RoundHalfEven(CalculateSuccessScore(txs), 10),
     time_consistency |-> RoundHalfEven(CalculateTimeConsistencyScore(txs), 10),
     cost_consistency |-> RoundHalfEven(CalculateCostConsistencyScore(txs), 10),
     uptime |-> RoundHalfEven(CalculateUptimeScore(txs, hours), 10),
     volume |-> RoundHalfEven(CalculateVolumeScore(txs, all_rows), 10)]

\* the body of calculate_comprehensive_score
ComprehensiveScore(all_rows, ms, bridge_name, hours, fault) ==
    LET txs == WindowTransactions(all_rows, bridge_name, hours)
        overall == OverallScore(txs, all_rows, hours)
    IN IF fault = "query" THEN ErrorResponse(bridge_name)
       ELSE IF txs = <<>> THEN NoDataResponse(bridge_name)
       ELSE MkScore(bridge_name, RoundHalfEven(overall, 1000),
                    GetRating(overall, 100000),
                    CalculateTrend(ms, bridge_name, hours, fault),
                    ComponentScores(txs, all_rows, hours), Some(Len(txs)))

VARIABLES
    transactions,  \* the rows of transaction_history
    metrics,       \* the rows of bridge_performance_metrics
    spc,           \* "idle", "returned"
    scall,         \* the arguments of the scoring that has just returned
    score_result   \* the dictionary it returned

scorerVars == << transactions, metrics, spc, scall, score_result >>

NoScoreCall == [bridge_name |-> "", hours |-> 0, fault |-> "none"]
NoScore == MkScore("", 0, "", "", <<>>, None)

InitScorer ==
    /\ transactions = <<>>
    /\ metrics = <<>>
    /\ spc = "idle"
    /\ scall = NoScoreCall
    /\ score_result = NoScore

\* a transaction reaches the table in its final form (create_transaction,
\* then update_transaction)
RecordTransactionE(t) ==
    /\ spc = "idle"
    /\ Len(transactions) < MaxTx
    /\ transactions' = Append(transactions, t)
    /\ UNCHANGED << metrics, spc, scall, score_result >>

\* the metrics task stores a BridgePerformanceMetric
StoreMetricE(m) ==
    /\ spc = "idle"
    /\ Len(metrics) < MaxMetrics
    /\ metrics' = Append(metrics, m)
    /\ UNCHANGED << transactions, spc, scall, score_result >>

\* what a scoring returns
ScoreReturned(bridge_name, hours, fault) ==
    /\ spc = "idle"
    /\ spc' = "returned"
    /\ scall' = [bridge_name |-> bridge_name, hours |-> hours, fault |-> fault]
    /\ score_result' = ComprehensiveScore(transactions, metrics, bridge_name,
                                          hours, fault)

\* variant: the scoring keeps its result as a metric of the bridge
CalculateAndStoreScore(bridge_name, hours, fault) ==
    /\ ScoreReturned(bridge_name, hours, fault)
    /\ metrics' = IF Len(metrics) < MaxMetrics
                  THEN Append(metrics, MkMetric(bridge_name, 0, 0))
                  ELSE metrics
    /\ UNCHANGED transactions

\* calculate_comprehensive_score: a synchronous function that only queries
CalculateComprehensiveScoreE(bridge_name, hours, fault) ==
    /\ ScoreReturned(bridge_name, hours, fault)
    /\ UNCHANGED << transactions, metrics >>

\* the caller takes the dictionary
ScorerDeliverE ==
    /\ spc = "returned"
    /\ spc' = "idle"
    /\ scall' = NoScoreCall
    /\ score_result' = NoScore
    /\ UNCHANGED << transactions, metrics >>

(***************************************************************************)
(* _get_rating applied to the scores from 0.0 to 100.0, in tenths.         *)
(***************************************************************************)
Tenths == 0..1000

VARIABLES
    rated   \* the last score _get_rating was applied to, and its rating

NoRating == [score |-> 0, rating |-> ""]

InitRating == rated = NoRating

GetRatingE(score) ==
    rated' = [score |-> score, rating |-> GetRating(score, 10)]

(***************************************************************************)
(* _rank_routes applied to batches of quotes of distinct adapters.         *)
(***************************************************************************)
\* the quotes of a batch are at most this many
MaxBatch == 3

\* the quotes the batches are made of: the three of the end-to-end
\* scenario, a free and instant one, and one equal to the first but for
\* its adapter
BatchQuotes ==
    { MkQuote(1, 5, 180, 100), MkQuote(2, 8, 90, 100), MkQuote(3, 6, 240, 100),
      MkQuote(4, 0, 0, 100), MkQuote(5, 5, 180, 100) }

\* the non-empty batches: no two quotes of one adapter
Batches ==
    UNION { { batch \in [1..n -> BatchQuotes] :
                \A i, j \in 1..n : i # j => batch[i] # batch[j] } : n \in 1..MaxBatch }

VARIABLES
    rank_in,   \* the batch and preferences _rank_routes was last applied to
    rank_out   \* what it returned, and whether it raised instead

rankVars == << rank_in, rank_out >>

InitRank ==
    /\ rank_in = [quotes |-> <<>>, preferences |-> NoPrefs]
    /\ rank_out = [raised |-> FALSE, quotes |-> <<>>]

RankRoutesE(quotes, preferences) ==
    /\ rank_in' = [quotes |-> quotes, preferences |-> preferences]
    /\ rank_out' = IF RankRaises(quotes)
                   THEN [raised |-> TRUE, quotes |-> <<>>]
                   ELSE [raised |-> FALSE, quotes |-> RankRoutes(quotes, preferences)]

(***************************************************************************)
(* The cache operations of concurrent discover_routes calls, statement by  *)
(* statement.  The calls are coroutines of one event loop: a coroutine     *)
(* that runs keeps the loop until it awaits or returns, and                *)
(* _get_cached_quote and _cache_quotes contain no await.  The dict is the  *)
(* sequence of its entries, as quote_cache is; the lists cached play no    *)
(* part here.                                                              *)
(***************************************************************************)
\* the keys the concurrent calls ask for
OpKeys == { GetCacheKey(p) : p \in Params }

VARIABLES
    op_cache,   \* self.quote_cache: entries [key, timestamp, quotes]
    stmt,       \* per call: the statement it is at
    running,    \* the call that holds the event loop, 0 when none does
    op_key,     \* per call: its cache_key
    op_seen,    \* per call: cached_time, as read by _get_cached_quote
    victims     \* per call: what is left of sorted_keys[:EvictCount]

opVars == << op_cache, stmt, running, op_key, op_seen, victims >>

InitOps ==
    /\ op_cache = <<>>
    /\ stmt = [c \in Calls |-> "idle"]
    /\ running = 0
    /\ op_key = [c \in Calls |-> GetCacheKey(MkParams("ethereum", "0xu1"))]
    /\ op_seen = [c \in Calls |-> 0]
    /\ victims = [c \in Calls |-> <<>>]

\* variant: the calls run on threads that are preempted between any two
\* statements
MayRunAnytime(c) == TRUE

\* the event loop runs one coroutine at a time, and switches only when the
\* running one awaits or returns
MayRun(c) == running \in { 0, c }

\* sorted(self.quote_cache.keys(), key = timestamp)[:EvictCount]
SortedKeysHead(cache) ==
    [p \in 1..(IF Len(cache) < EvictCount THEN Len(cache) ELSE EvictCount) |->
        cache[CHOOSE i \in 1..Len(cache) : SortedPos(cache, i) = p - 1].key]

\* discover_routes is called: the coroutine is created
OpStartE(c, key) ==
    /\ stmt[c] = "idle"
    /\ stmt' = [stmt EXCEPT ![c] = "test"]
    /\ op_key' = [op_key EXCEPT ![c] = key]
    /\ UNCHANGED << op_cache, running, op_seen, victims >>

\* _get_cached_quote: `if cache_key not in self.quote_cache: return None`;
\* on None the call creates its tasks and awaits the gather
OpTestE(c) ==
    /\ MayRun(c)
    /\ stmt[c] = "test"
    /\ IF KeyIndex(op_cache, op_key[c]) = 0
       THEN stmt' = [stmt EXCEPT ![c] = "await"] /\ running' = 0
       ELSE stmt' = [stmt EXCEPT ![c] = "read"] /\ running' = c
    /\ UNCHANGED << op_cache, op_key, op_seen, victims >>

\* _get_cached_quote: `cached_data = self.quote_cache[cache_key]`, a
\* KeyError if the key is gone
OpReadE(c) ==
    /\ MayRun(c)
    /\ stmt[c] = "read"
    /\ LET i == KeyIndex(op_cache, op_key[c]) IN
       IF i = 0
       THEN /\ stmt' = [stmt EXCEPT ![c] = "failed"]
            /\ running' = 0
            /\ UNCHANGED op_seen
       ELSE /\ stmt' = [stmt EXCEPT ![c] = "expire"]
            /\ running' = c
            /\ op_seen' = [op_seen EXCEPT ![c] = op_cache[i].timestamp]
    /\ UNCHANGED << op_cache, op_key, victims >>

\* _get_cached_quote: the TTL check; an expired entry is deleted (a KeyError
\* if the key is gone) and the call goes on as on a miss, a fresh one is
\* returned
OpExpireE(c) ==
    /\ MayRun(c)
    /\ stmt[c] = "expire"
    /\ LET i == KeyIndex(op_cache, op_key[c]) IN
       IF now - op_seen[c] > CacheTtlSeconds
       THEN IF i = 0
            THEN stmt' = [stmt EXCEPT ![c] = "failed"] /\ UNCHANGED op_cache
            ELSE /\ stmt' = [stmt EXCEPT ![c] = "await"]
                 /\ op_cache' = RemoveAt(op_cache, i)
       ELSE stmt' = [stmt EXCEPT ![c] = "done"] /\ UNCHANGED op_cache
    /\ running' = 0
    /\ UNCHANGED << op_key, op_seen, victims >>

\* the gather returns: with quotes the call goes on to cache them, without
\* it returns the empty list
OpGatheredE(c, any_quote) ==
    /\ MayRun(c)
    /\ stmt[c] = "await"
    /\ IF any_quote
       THEN stmt' = [stmt EXCEPT ![c] = "store"] /\ running' = c
       ELSE stmt' = [stmt EXCEPT ![c] = "done"] /\ running' = 0
    /\ UNCHANGED << op_cache, op_key, op_seen, victims >>

\* _cache_quotes: `self.quote_cache[cache_key] = {...}`
OpStoreE(c) ==
    /\ MayRun(c)
    /\ stmt[c] = "store"
    /\ LET entry == [key |-> op_key[c], timestamp |-> now, quotes |-> <<>>]
           i == KeyIndex(op_cache, op_key[c])
       IN op_cache' = IF i = 0 THEN Append(op_cache, entry)
                      ELSE [op_cache EXCEPT ![i] = entry]
    /\ stmt' = [stmt EXCEPT ![c] = "size"]
    /\ running' = c
    /\ UNCHANGED << op_key, op_seen, victims >>

\* _cache_quotes: `if len(self.quote_cache) > 1000: sorted_keys = ...`
OpSizeE(c) ==
    /\ MayRun(c)
    /\ stmt[c] = "size"
    /\ IF Len(op_cache) > CacheLimit
       THEN /\ stmt' = [stmt EXCEPT ![c] = "evict"]
            /\ victims' = [victims EXCEPT ![c] = SortedKeysHead(op_cache)]
            /\ running' = c
       ELSE /\ stmt' = [stmt EXCEPT ![c] = "done"]
            /\ victims' = victims
            /\ running' = 0
    /\ UNCHANGED << op_cache, op_key, op_seen >>

\* _cache_quotes: `for key in sorted_keys[:100]: del self.quote_cache[key]`,
\* one turn of the loop; a KeyError if the key is gone
OpEvictE(c) ==
    /\ MayRun(c)
    /\ stmt[c] = "evict"
    /\ IF victims[c] = <<>>
       THEN /\ stmt' = [stmt EXCEPT ![c] = "done"]
            /\ running' = 0
            /\ UNCHANGED << op_cache, victims >>
       ELSE LET i == KeyIndex(op_cache, victims[c][1]) IN
            IF i = 0
            THEN /\ stmt' = [stmt EXCEPT ![c] = "failed"]
                 /\ running' = 0
                 /\ UNCHANGED << op_cache, victims >>
            ELSE /\ op_cache' = RemoveAt(op_cache, i)
                 /\ victims' = [victims EXCEPT ![c] = Tail(@)]
                 /\ running' = c
                 /\ UNCHANGED stmt
    /\ UNCHANGED << op_key, op_seen >>

\* the caller takes the list, or the exception
OpReturnE(c) ==
    /\ stmt[c] \in { "done", "failed" }
    /\ stmt' = [stmt EXCEPT ![c] = "idle"]
    /\ victims' = [victims EXCEPT ![c] = <<>>]
    /\ op_seen' = [op_seen EXCEPT ![c] = 0]
    /\ UNCHANGED << op_cache, running, op_key >>

(***************************************************************************)
(* WebhookDeliveryService (app/services/webhook_delivery.py): one          *)
(* WebhookDelivery row and the _deliver_webhook tasks that work on it,     *)
(* each with a database session of its own.  SessionLocal is not among     *)
(* the sources: whether a session reloads a row after its commit           *)
(* (expire_on_commit) is left open.                                        *)
(***************************************************************************)
\* self.max_retries
MaxRetries == 5
\* _deliver_webhook tasks alive at a time
NumRuns == 2
Runs == 1..NumRuns

\* what session.post ends with
PostOutcomes == { "2xx", "non2xx", "error" }

VARIABLES
    delivery,          \* the row: exists, attempt_number, success
    deliver_run,       \* per task: its position, retry_count, and the
                       \* attempt_number its session holds
    expire_on_commit   \* the setting of SessionLocal

webhookVars == << delivery, deliver_run, expire_on_commit >>

NoRun == [at |-> "none", retry_count |-> 0, held |-> 0, stale |-> FALSE]

InitWebhook ==
    /\ delivery = [exists |-> FALSE, attempt_number |-> 0, success |-> FALSE]
    /\ deliver_run = [r \in Runs |-> NoRun]
    /\ expire_on_commit = FALSE

\* notify_transaction_update: the row is created with attempt_number 0 and
\* a _deliver_webhook task is created for it
NotifyTransactionUpdateE(expires) ==
    /\ ~delivery.exists
    /\ delivery' = [exists |-> TRUE, attempt_number |-> 0, success |-> FALSE]
    /\ deliver_run' = [deliver_run EXCEPT ![1].at = "created"]
    /\ expire_on_commit' = expires

\* the filter of retry_failed_deliveries: success == False and
\* attempt_number < max_retries (and created since the cutoff)
RetrySelects ==
    /\ delivery.exists
    /\ ~delivery.success
    /\ delivery.attempt_number < MaxRetries

\* retry_failed_deliveries: a _deliver_webhook task is created for every
\* row the filter selects
RetryFailedDeliveriesE(r) ==
    /\ RetrySelects
    /\ deliver_run[r].at = "none"
    /\ deliver_run' = [deliver_run EXCEPT ![r].at = "created"]
    /\ UNCHANGED << delivery, expire_on_commit >>

\* _deliver_webhook begins: a session of its own, the row queried,
\* retry_count = 0, and the first request sent
DeliverWebhookBeginsE(r) ==
    /\ deliver_run[r].at = "created"
    /\ deliver_run' = [deliver_run EXCEPT ![r] =
                         [at |-> "posting", retry_count |-> 0,
                          held |-> delivery.attempt_number, stale |-> FALSE]]
    /\ UNCHANGED << delivery, expire_on_commit >>

\* the attempt_number `delivery.attempt_number += 1` starts from: the one
\* the session holds, or the one of the row when the session's was expired
AttemptNumberRead(r) ==
    IF deliver_run[r].stale /\ expire_on_commit
    THEN delivery.attempt_number
    ELSE deliver_run[r].held

\* the end of an attempt that did not succeed: the commit of line 223, then
\* the backoff sleep, or with the attempts of this task exhausted the row
\* marked failed
AttemptFailed(r, attempt_number) ==
    /\ IF deliver_run[r].retry_count + 1 < MaxRetries
       THEN /\ deliver_run' = [deliver_run EXCEPT ![r] =
                                 [at |-> "sleeping",
                                  retry_count |-> deliver_run[r].retry_count + 1,
                                  held |-> attempt_number, stale |-> TRUE]]
            /\ delivery' = [delivery EXCEPT !.attempt_number = attempt_number]
       ELSE /\ deliver_run' = [deliver_run EXCEPT ![r] = NoRun]
            /\ delivery' = [delivery EXCEPT
                              !.attempt_number = attempt_number,
                              !.success = IF expire_on_commit THEN FALSE ELSE @]
    /\ UNCHANGED expire_on_commit

\* session.post ends: with a response, whose text is then awaited, or with
\* a timeout or another exception, which is recorded at once
PostEndsE(r, outcome) ==
    /\ deliver_run[r].at = "posting"
    /\ LET attempt_number == AttemptNumberRead(r) + 1 IN
       IF outcome = "error"
       THEN AttemptFailed(r, attempt_number)
       ELSE /\ deliver_run' = [deliver_run EXCEPT ![r].at = outcome,
                                                 ![r].held = attempt_number,
                                                 ![r].stale = FALSE]
            /\ UNCHANGED << delivery, expire_on_commit >>

\* response.text() has been read: a 2xx marks the row delivered and ends the
\* task, another status ends the attempt
ResponseReadE(r) ==
    /\ deliver_run[r].at \in { "2xx", "non2xx" }
    /\ IF deliver_run[r].at = "2xx"
       THEN /\ delivery' = [delivery EXCEPT !.attempt_number = deliver_run[r].held,
                                            !.success = TRUE]
            /\ deliver_run' = [deliver_run EXCEPT ![r] = NoRun]
            /\ UNCHANGED expire_on_commit
       ELSE AttemptFailed(r, deliver_run[r].held)

\* asyncio.sleep(delay) is over and the next request is sent
BackoffEndsE(r) ==
    /\ deliver_run[r].at = "sleeping"
    /\ deliver_run' = [deliver_run EXCEPT ![r].at = "posting"]
    /\ UNCHANGED << delivery, expire_on_commit >>

\* the variables of the parts of the model that the engine, the router and
\* the endpoint leave alone
otherVars == << scorerVars, rated, rankVars, opVars, webhookVars >>

vars == << engineVars, routerVars, apiVars, otherVars >>

StartCall(c, p, pr) == StartCallE(c, p, pr) /\ UNCHANGED << routerVars, apiVars, otherVars >>
AwaitGather(c) == AwaitGatherE(c) /\ UNCHANGED << routerVars, apiVars, otherVars >>
AdapterReturns(c, b, o) == AdapterReturnsE(c, b, o) /\ UNCHANGED << routerVars, apiVars, otherVars >>
AdapterTimeout(c, b) == AdapterTimeoutE(c, b) /\ UNCHANGED << routerVars, apiVars, otherVars >>
FinishCall(c) == FinishCallE(c) /\ UNCHANGED << routerVars, apiVars, otherVars >>
Deliver(c) == DeliverE(c) /\ UNCHANGED << routerVars, apiVars, otherVars >>
Tick(d) == TickE(d) /\ UNCHANGED << routerVars, apiVars, otherVars >>

FindBestRoute(amount, max_hops, include_multi_hop) ==
    FindBestRouteE(amount, max_hops, include_multi_hop) /\ UNCHANGED << engineVars, apiVars, otherVars >>
DirectQuotesReturn(pick) == DirectQuotesReturnE(pick) /\ UNCHANGED << engineVars, apiVars, otherVars >>
FirstHopReturns(pick) == FirstHopReturnsE(pick) /\ UNCHANGED << engineVars, apiVars, otherVars >>
SecondHopReturns(pick, raises) ==
    SecondHopReturnsE(pick, raises) /\ UNCHANGED << engineVars, apiVars, otherVars >>
ClientNeverReturns == ClientNeverReturnsE /\ UNCHANGED << engineVars, apiVars, otherVars >>
RouterDeliver == RouterDeliverE /\ UNCHANGED << engineVars, apiVars, otherVars >>

ReceiveRequest(header, p) == ReceiveRequestE(header, p) /\ UNCHANGED << engineVars, routerVars, otherVars >>
GetApiKey == GetApiKeyE /\ UNCHANGED << engineVars, routerVars, otherVars >>
EndpointCallsDiscovery == EndpointCallsDiscoveryE /\ UNCHANGED << routerVars, otherVars >>
EndpointResponds == EndpointRespondsE /\ UNCHANGED << routerVars, otherVars >>
TrackUsage == TrackUsageE /\ UNCHANGED << engineVars, routerVars, otherVars >>
RevokeKey == RevokeKeyE /\ UNCHANGED << engineVars, routerVars, otherVars >>

\* the steps of the scorer leave the rest alone
restOfScorer == << engineVars, routerVars, apiVars, rated, rankVars, opVars, webhookVars >>
RecordTransaction(t) == RecordTransactionE(t) /\ UNCHANGED restOfScorer
StoreMetric(m) == StoreMetricE(m) /\ UNCHANGED restOfScorer
CalculateComprehensiveScore(bridge_name, hours, fault) ==
    CalculateComprehensiveScoreE(bridge_name, hours, fault) /\ UNCHANGED restOfScorer
ScorerDeliver == ScorerDeliverE /\ UNCHANGED restOfScorer

Init == InitEngine /\ InitRouter /\ InitApi /\ InitScorer /\ InitRating /\ InitRank /\ InitOps /\ InitWebhook

EngineNext(callers, requests, prefs) ==
    \/ \E c \in callers, p \in requests, pr \in prefs : StartCall(c, p, pr)
    \/ \E c \in callers : AwaitGather(c)
    \/ \E c \in callers, b \in Bridges : \E o \in AdapterOutcomes(b) : AdapterReturns(c, b, o)
    \/ \E c \in callers, b \in Bridges : AdapterTimeout(c, b)
    \/ \E c \in callers : FinishCall(c)
    \/ \E c \in callers : Deliver(c)
    \/ \E d \in TickSteps : Tick(d)

\* one caller issuing one call after the other, over all the requests
Next == EngineNext(SeqCalls, Params, Prefs)

Spec == Init /\ [][Next]_vars

\* concurrent callers (the batch endpoint gathers several discover_routes
\* calls on one event loop), racing on one cache key
NextConc == EngineNext(Calls, {MkParams("ethereum", "0xu1")}, Prefs)

SpecConc == Init /\ [][NextConc]_vars

\* one caller, over requests that differ in the case of a token address
NextTokenCase == EngineNext(SeqCalls, TokenCaseParams, {NoPrefs})

SpecTokenCase == Init /\ [][NextTokenCase]_vars

\* the event loop runs what is ready: a suspended call is resumed, a wait_for
\* timer that is due fires, a gather whose tasks are all done returns
EventLoopStep ==
    \E c \in SeqCalls :
        \/ AwaitGather(c)
        \/ \E b \in Bridges : AdapterTimeout(c, b)
        \/ FinishCall(c)
        \/ Deliver(c)

EngineFairness == WF_vars(EventLoopStep)

\* one caller repeating one request, under the scheduling of the event loop
NextFair == EngineNext(SeqCalls, {MkParams("ethereum", "0xu1")}, {NoPrefs})

SpecFair == Init /\ [][NextFair]_vars /\ EngineFairness

\* find_best_route, one call after the other
NextRouter ==
    \/ \E amount \in Amounts, max_hops \in MaxHopsChoices, include \in BOOLEAN :
          FindBestRoute(amount, max_hops, include)
    \/ \E pick \in GatherOutcomes(RouterSource, RouterDestination, rargs.amount) :
          DirectQuotesReturn(pick)
    \/ /\ rpc = "hop1"
       /\ \E pick \in GatherOutcomes(RouterSource, IntermediateChains[hop_index],
                                     rargs.amount) :
             FirstHopReturns(pick)
    \/ /\ rpc = "hop2"
       /\ \E pick \in GatherOutcomes(IntermediateChains[hop_index], RouterDestination,
                                     hop1_best[1].amount_out), raises \in BOOLEAN :
             SecondHopReturns(pick, raises)
    \/ RouterDeliver

SpecRouter == Init /\ [][NextRouter]_vars

\* the steps the event loop takes by itself once a gather is complete
RouterResumes ==
    \/ \E pick \in GatherOutcomes(RouterSource, RouterDestination, rargs.amount) :
          DirectQuotesReturn(pick)
    \/ /\ rpc = "hop1"
       /\ \E pick \in GatherOutcomes(RouterSource, IntermediateChains[hop_index],
                                     rargs.amount) :
             FirstHopReturns(pick)
    \/ /\ rpc = "hop2"
       /\ \E pick \in GatherOutcomes(IntermediateChains[hop_index], RouterDestination,
                                     hop1_best[1].amount_out), raises \in BOOLEAN :
             SecondHopReturns(pick, raises)

\* find_best_route with clients that may never answer
NextRouterFair ==
    \/ \E max_hops \in MaxHopsChoices, include \in BOOLEAN :
          FindBestRoute(FairAmount, max_hops, include)
    \/ RouterResumes
    \/ ClientNeverReturns
    \/ RouterDeliver

RouterFairness == WF_vars(RouterResumes)

SpecRouterFair == Init /\ [][NextRouterFair]_vars /\ RouterFairness

\* the requests to the quote endpoint, one after the other
ApiRequest == MkParams("ethereum", "0xu1")

NextApi ==
    \/ \E header \in Headers : ReceiveRequest(header, ApiRequest)
    \/ GetApiKey
    \/ EndpointCallsDiscovery
    \/ AwaitGather(ApiCaller)
    \/ \E b \in Bridges : \E o \in AdapterOutcomes(b) : AdapterReturns(ApiCaller, b, o)
    \/ \E b \in Bridges : AdapterTimeout(ApiCaller, b)
    \/ FinishCall(ApiCaller)
    \/ EndpointResponds
    \/ TrackUsage
    \/ RevokeKey
    \/ \E d \in TickSteps : Tick(d)

SpecApi == Init /\ [][NextApi]_vars

\* scorings, one after the other, of tables that fill up meanwhile
NextScorer ==
    \/ \E t \in TxKinds : RecordTransaction(t)
    \/ \E m \in MetricKinds : StoreMetric(m)
    \/ \E b \in ScorerBridges, h \in HoursChoices, f \in ScorerFaults :
          CalculateComprehensiveScore(b, h, f)
    \/ ScorerDeliver

SpecScorer == Init /\ [][NextScorer]_vars

\* _get_rating, applied to one score after the other
ApplyGetRating(score) ==
    GetRatingE(score)
        /\ UNCHANGED << engineVars, routerVars, apiVars, scorerVars, rankVars, opVars, webhookVars >>

NextRating == \E score \in Tenths : ApplyGetRating(score)

SpecRating == Init /\ [][NextRating]_vars

\* _rank_routes, applied to one batch after the other
ApplyRankRoutes(quotes, preferences) ==
    RankRoutesE(quotes, preferences)
        /\ UNCHANGED << engineVars, routerVars, apiVars, scorerVars, rated, opVars, webhookVars >>

NextRank == \E quotes \in Batches, preferences \in Prefs : ApplyRankRoutes(quotes, preferences)

SpecRank == Init /\ [][NextRank]_vars

\* the steps of the cache operations change, besides the cache and the
\* calls, nothing but the clock
restOfOps == << quote_cache, pc, args, tasks, finish_order, result, lookup, invoked,
               published, routerVars, apiVars, scorerVars, rated, rankVars,
               webhookVars >>
OpStart(c, key) == OpStartE(c, key) /\ UNCHANGED << now, restOfOps >>
OpTest(c) == OpTestE(c) /\ UNCHANGED << now, restOfOps >>
OpRead(c) == OpReadE(c) /\ UNCHANGED << now, restOfOps >>
OpExpire(c) == OpExpireE(c) /\ UNCHANGED << now, restOfOps >>
OpGathered(c, any_quote) == OpGatheredE(c, any_quote) /\ UNCHANGED << now, restOfOps >>
OpStore(c) == OpStoreE(c) /\ UNCHANGED << now, restOfOps >>
OpSize(c) == OpSizeE(c) /\ UNCHANGED << now, restOfOps >>
OpEvict(c) == OpEvictE(c) /\ UNCHANGED << now, restOfOps >>
OpReturn(c) == OpReturnE(c) /\ UNCHANGED << now, restOfOps >>

\* concurrent calls, statement by statement, while time passes
NextCacheOps ==
    \/ \E c \in Calls, key \in OpKeys : OpStart(c, key)
    \/ \E c \in Calls : OpTest(c)
    \/ \E c \in Calls : OpRead(c)
    \/ \E c \in Calls : OpExpire(c)
    \/ \E c \in Calls, any_quote \in BOOLEAN : OpGathered(c, any_quote)
    \/ \E c \in Calls : OpStore(c)
    \/ \E c \in Calls : OpSize(c)
    \/ \E c \in Calls : OpEvict(c)
    \/ \E c \in Calls : OpReturn(c)
    \/ \E d \in TickSteps : Tick(d)

SpecCacheOps == Init /\ [][NextCacheOps]_vars

restOfWebhook == << engineVars, routerVars, apiVars, scorerVars, rated, rankVars, opVars >>
NotifyTransactionUpdate(expires) ==
    NotifyTransactionUpdateE(expires) /\ UNCHANGED restOfWebhook
RetryFailedDeliveries(r) == RetryFailedDeliveriesE(r) /\ UNCHANGED restOfWebhook
DeliverWebhookBegins(r) == DeliverWebhookBeginsE(r) /\ UNCHANGED restOfWebhook
PostEnds(r, outcome) == PostEndsE(r, outcome) /\ UNCHANGED restOfWebhook
ResponseRead(r) == ResponseReadE(r) /\ UNCHANGED restOfWebhook
BackoffEnds(r) == BackoffEndsE(r) /\ UNCHANGED restOfWebhook

\* a delivery, the tasks working on it and the retries of the failed ones
NextWebhook ==
    \/ \E expires \in BOOLEAN : NotifyTransactionUpdate(expires)
    \/ \E r \in Runs : RetryFailedDeliveries(r)
    \/ \E r \in Runs : DeliverWebhookBegins(r)
    \/ \E r \in Runs, outcome \in PostOutcomes : PostEnds(r, outcome)
    \/ \E r \in Runs : ResponseRead(r)
    \/ \E r \in Runs : BackoffEnds(r)

SpecWebhook == Init /\ [][NextWebhook]_vars

(***************************************************************************)
(* Properties of the discovery engine.                                     *)
(***************************************************************************)
\* the call has just gone through its cache lookup
JustLookedUp(c) == pc[c] \in {"created", "returned"} /\ lookup[c] # "none"

\* the call has just come out of a gather of adapter tasks
JustGathered(c) == pc[c] \in {"returned", "raised"} /\ invoked[c] # {}

KeyOf(c) == GetCacheKey(args[c].route_params)

\* the quotes the adapters of the call produced
Produced(c) == { QuoteOf(b, tasks[c][b].v) : b \in { x \in Bridges : tasks[c][x].st = "quote" } }

Failed(c) == { b \in Bridges : tasks[c][b].st \in {"error", "timeout"} }

\* C1: in a call that missed the cache, an adapter that raised or timed out
\* contributes no quote and does not abort the batch: the call returns, and
\* the quotes of the other adapters are all in the result.
C1_FailureDoesNotAbort ==
    \A c \in Calls :
        (JustGathered(c) /\ Failed(c) # {}) =>
            /\ pc[c] = "returned"
            /\ Range(result[c]) = Produced(c)

\* what does hold: the failure of an adapter never reaches the caller;
\* a call with a failed adapter ends by an exception only when the ranking
\* of the remaining quotes raises
AdapterFailureContained ==
    \A c \in Calls :
        (JustGathered(c) /\ Failed(c) # {}) =>
            /\ pc[c] = "returned" => Range(result[c]) = Produced(c)
            /\ pc[c] = "raised" =>
                 RankRaises(QueryAllBridges(tasks[c], finish_order[c]))

\* C2: a call whose adapters never answer still ends, the timeouts firing,
\* and a call all of whose adapters timed out returns the empty list.
AllTimedOut(c) == \A b \in Bridges : tasks[c][b].st = "timeout"

C2_TimeoutsEndTheCall ==
    /\ \A c \in SeqCalls : (pc[c] = "gather") ~> (pc[c] \in {"returned", "raised"})
    /\ [](\A c \in SeqCalls :
            (AllTimedOut(c) /\ pc[c] # "gather") =>
                (pc[c] = "returned" /\ result[c] = <<>>))

C2_Witness ==
    \E c \in SeqCalls : AllTimedOut(c) /\ pc[c] = "returned" /\ result[c] = <<>>

\* a batch for the key of the call produced a list at most the TTL ago
RecentBatch(c) ==
    /\ published[KeyOf(c)].at >= 0
    /\ now - published[KeyOf(c)].at <= CacheTtlSeconds

ServedFromCache(c) ==
    /\ pc[c] = "returned"
    /\ result[c] = published[KeyOf(c)].quotes
    /\ invoked[c] = {}

\* C3 as stated: a call with the parameters of an earlier call that produced
\* a non-empty list at most 30 seconds before returns that list and invokes
\* no adapter.
C3_RepeatWithinTtlIsAHit ==
    \A c \in Calls : (JustLookedUp(c) /\ RecentBatch(c)) => ServedFromCache(c)

\* C3 amended: ... provided the entry of the earlier call is still in the
\* cache (the cleanup of a full cache has not evicted it); and an entry of
\* the cache is always the list of the latest batch for its key.
C3_HitWhileEntryKept ==
    /\ \A i \in 1..Len(quote_cache) :
          published[quote_cache[i].key] =
              [at |-> quote_cache[i].timestamp, quotes |-> quote_cache[i].quotes]
    /\ \A c \in Calls :
          (JustLookedUp(c) /\ RecentBatch(c) /\ lookup[c] # "absent")
              => ServedFromCache(c)

C3_Witness ==
    \E c \in Calls :
        /\ JustLookedUp(c) /\ RecentBatch(c) /\ lookup[c] # "absent"
        /\ now - published[KeyOf(c)].at = CacheTtlSeconds
        /\ Len(result[c]) = 2

\* C4: a call that finds under its key an entry cached more than 30 seconds
\* ago treats it as a miss, removes the entry, and has every registered
\* adapter queried again.
FoundExpired(c) ==
    /\ JustLookedUp(c)
    /\ lookup[c] # "absent"
    /\ now - published[KeyOf(c)].at > CacheTtlSeconds

C4_ExpiredEntryIsAMiss ==
    \A c \in Calls :
        FoundExpired(c) =>
            /\ pc[c] = "created"
            /\ KeyIndex(quote_cache, KeyOf(c)) = 0
            /\ invoked[c] = Bridges
            /\ \A b \in Bridges : tasks[c][b] = Pending

C4_Witness == \E c \in Calls : FoundExpired(c) /\ pc[c] = "created"

SortedByScore(list, preferences) ==
    \A i, j \in 1..Len(list) :
        i < j => ScoreIn(list, i, preferences) >= ScoreIn(list, j, preferences)

\* C5: every non-empty list discover_routes returns, computed or cached, is
\* in non-increasing order of the weighted score under the weights of the
\* preferences of that call.
C5_ReturnedListSorted ==
    \A c \in Calls :
        (pc[c] = "returned" /\ result[c] # <<>>) =>
            SortedByScore(result[c], args[c].preferences)

\* C6: in the list a call ranks from its batch, quotes of equal score are in
\* registration order, so the list is the one arrangement of the successful
\* quotes by (score descending, registration order), whatever the order in
\* which the adapters finished.
RegistrationTieBreak(list, preferences) ==
    \A i, j \in 1..Len(list) :
        i < j =>
            \/ ScoreIn(list, i, preferences) > ScoreIn(list, j, preferences)
            \/ /\ ScoreIn(list, i, preferences) = ScoreIn(list, j, preferences)
               /\ list[i].bridge_name < list[j].bridge_name

SearchedAndFound ==
    /\ rpc = "returned"
    /\ rargs.include_multi_hop /\ rargs.max_hops >= 2
    /\ routes # <<>>

\* the routes of least total cost among those built
CheapestRoutes == { r \in Range(routes) :
                      \A o \in Range(routes) : r.total_cost_usd <= o.total_cost_usd }

\* the direct quotes of least cost
CheapestDirect == { q \in Range(direct_quotes) :
                      \A o \in Range(direct_quotes) :
                          q.estimated_cost_usd <= o.estimated_cost_usd }

\* the result is a cheapest direct quote, with a cheapest route as the only
\* alternative and a cost delta recorded
DirectWins ==
    /\ rresult.route_type = "direct"
    /\ \E q \in CheapestDirect : rresult.best_route = Some(q)
    /\ \E r \in CheapestRoutes : rresult.alternatives = << FormatMultiHopRoute(r) >>
    /\ rresult.direct_savings_usd # None

\* the result is a cheapest two-hop route, with the direct quote, if any,
\* as the alternative, and the saving recorded
MultiHopWins(saving) ==
    /\ rresult.route_type = "multi-hop"
    /\ \E r \in CheapestRoutes : rresult.best_route = Some(FormatMultiHopRoute(r))
    /\ IF direct_quotes = <<>>
       THEN rresult.alternatives = <<>> /\ rresult.savings_usd = None
       ELSE /\ \E q \in CheapestDirect : rresult.alternatives = << q >>
            /\ rresult.savings_usd = saving

\* C7 as stated: after a search that built a two-hop route, a direct quote
\* that costs no more than the best two-hop route is the result, the route
\* its only alternative and the delta recorded; otherwise the route is the
\* result, the direct quote (if any) the alternative, and savings_usd is
\* direct_cost - multihop_cost.
C7_DirectOrMultiHop ==
    SearchedAndFound =>
        LET m == (CHOOSE r \in CheapestRoutes : TRUE).total_cost_usd IN
        IF direct_quotes # <<>>
           /\ (CHOOSE q \in CheapestDirect : TRUE).estimated_cost_usd <= m
        THEN DirectWins
        ELSE MultiHopWins(
                 IF direct_quotes = <<>> THEN None
                 ELSE Some((CHOOSE q \in CheapestDirect : TRUE).estimated_cost_usd - m))

\* C7 amended: ... and savings_usd is direct_cost - multihop_cost rounded to
\* two decimals (the recorded delta of a winning direct quote likewise).
C7_SavingsRoundedToCents ==
    SearchedAndFound =>
        LET m == (CHOOSE r \in CheapestRoutes : TRUE).total_cost_usd
            cents(x) == IF x % 10 < 5 THEN 10 * (x \div 10) ELSE 10 * (x \div 10) + 10
        IN
        IF direct_quotes # <<>>
           /\ (CHOOSE q \in CheapestDirect : TRUE).estimated_cost_usd <= m
        THEN LET d == (CHOOSE q \in CheapestDirect : TRUE).estimated_cost_usd
             IN DirectWins /\ rresult.direct_savings_usd = Some(cents(m - d))
        ELSE MultiHopWins(
                 IF direct_quotes = <<>> THEN None
                 ELSE Some(cents((CHOOSE q \in CheapestDirect : TRUE).estimated_cost_usd - m)))

\* direct $10 against a two-hop route of $7.002: multi-hop, savings_usd 3.0
C7_Witness ==
    /\ SearchedAndFound
    /\ rresult.route_type = "multi-hop"
    /\ \E q \in CheapestDirect : q.estimated_cost_usd = 10000
    /\ \E r \in CheapestRoutes : r.total_cost_usd = 7002
    /\ rresult.savings_usd = Some(3000)

\* C8: no result of find_best_route is labelled 'direct' with its best
\* route absent.
C8_DirectResultHasRoute ==
    rpc = "returned" =>
        ~(rresult.route_type = "direct" /\ rresult.best_route = None)

\* the positions of intermediate_chains that the loop does not skip
ViableIntermediates ==
    { i \in 1..Len(IntermediateChains) :
        IntermediateChains[i] \notin { RouterSource, RouterDestination } }

\* those whose evaluation has begun: the loop has reached them
StartedIntermediates == { i \in ViableIntermediates : i <= hop_index }

\* C20: the intermediates are evaluated in parallel: while the router waits
\* for the quotes of one of them, the evaluation of every other one has
\* been started.
C20_IntermediatesStartTogether ==
    rpc \in { "hop1", "hop2" } => StartedIntermediates = ViableIntermediates

\* what does hold: an intermediate is started only when all those before it
\* in the list are finished, so that exactly one is under evaluation
OneIntermediateAtATime ==
    rpc \in { "hop1", "hop2" } =>
        /\ hop_index \in ViableIntermediates
        /\ Len(routes) <= Cardinality({ i \in ViableIntermediates : i < hop_index })

\* find_best_route has returned after the multi-hop search
Searched ==
    /\ rpc = "returned"
    /\ rargs.include_multi_hop /\ rargs.max_hops >= 2

\* the intermediates a route was built through, and those that were skipped
RouteIntermediates ==
    { i \in ViableIntermediates :
        \E r \in Range(routes) : r.hops[1].destination_chain = IntermediateChains[i] }
SkippedIntermediates == { s.at : s \in skipped }

\* the two-hop routes of the result: its primary, or its alternative
ResultMultiHop ==
    IF rresult.route_type = "multi-hop" THEN Range(rresult.best_route)
    ELSE Range(rresult.alternatives)

\* C22: the search ends with every viable intermediate either skipped (a
\* hop without quote, a first hop that leaves nothing, an exception) or
\* with its route built, and the result carries a two-hop route, one of
\* those built, exactly when one was built.
C22_SkipsDoNotFailTheSearch ==
    Searched =>
        /\ rresult.route_type \in { "direct", "multi-hop" }
        /\ rresult.multi_hop_checked
        /\ SkippedIntermediates \cup RouteIntermediates = ViableIntermediates
        /\ SkippedIntermediates \cap RouteIntermediates = {}
        /\ Len(routes) = Cardinality(RouteIntermediates)
        /\ (ResultMultiHop = {}) <=> (routes = <<>>)
        /\ \A m \in ResultMultiHop :
              \E r \in Range(routes) : m = FormatMultiHopRoute(r)

\* one intermediate without a quote, one whose route raised, one built,
\* which the result carries
C22_Witness ==
    /\ Searched
    /\ \E s \in skipped : s.why = "exception"
    /\ \E s \in skipped : s.why \in { "no_hop1_quote", "no_hop2_quote" }
    /\ Len(routes) = 1
    /\ ResultMultiHop = { FormatMultiHopRoute(routes[1]) }

\* a first hop that leaves nothing is skipped too
ZeroOutputSkipped ==
    /\ Searched
    /\ \E s \in skipped : s.why = "zero_output"
    /\ rresult.route_type = "direct"

\* C23: the two-hop route of the result is of least total_cost_usd among
\* the routes built in the call.
C23_CheapestTwoHopReturned ==
    (Searched /\ routes # <<>>) =>
        /\ ResultMultiHop # {}
        /\ \A m \in ResultMultiHop : \A r \in Range(routes) :
              m.total_cost_usd <= r.total_cost_usd

\* the first route built is not the cheapest, and the result has the
\* cheapest
C23_Witness ==
    /\ Searched
    /\ Len(routes) >= 2
    /\ routes[1].total_cost_usd > routes[2].total_cost_usd
    /\ \E m \in ResultMultiHop : m.total_cost_usd = routes[2].total_cost_usd

\* C24: every route built goes source -> intermediate -> destination, the
\* intermediate being neither of the two, and its second hop is quoted
\* for, and records as amount_in, the first hop's amount_out.
C24_TwoHopRoutesConnected ==
    \A r \in Range(routes) :
        /\ Len(r.hops) = 2
        /\ r.hops[1].source_chain = RouterSource
        /\ r.hops[1].destination_chain = r.hops[2].source_chain
        /\ r.hops[2].destination_chain = RouterDestination
        /\ r.hops[1].destination_chain \notin { RouterSource, RouterDestination }
        /\ r.hops[1].amount_in = rargs.amount
        /\ r.hops[2].amount_in = r.hops[1].amount_out
        /\ r.hops[2].amount_out = AmountOut(r.hops[1].amount_out)

\* 1000 in, 997 between the hops, 994 out
C24_Witness ==
    \E r \in Range(routes) :
        /\ r.hops[1].amount_in = 1000
        /\ r.hops[2].amount_in = 997
        /\ r.hops[2].amount_out = 994

\* C25: the totals of a route are the sums over its hops, and its final
\* amount is the amount_out of its last hop.
C25_TotalsAreSums ==
    \A r \in Range(routes) :
        /\ r.total_cost_usd =
              SumOf([i \in 1..Len(r.hops) |-> r.hops[i].estimated_cost_usd])
        /\ r.total_time_minutes =
              SumOf([i \in 1..Len(r.hops) |-> r.hops[i].estimated_time_minutes])
        /\ r.final_amount = r.hops[Len(r.hops)].amount_out

\* hops of $3.502 and $3.500: a route of $7.002
C25_Witness ==
    \E r \in Range(routes) :
        /\ r.hops[1].estimated_cost_usd = 3502
        /\ r.hops[2].estimated_cost_usd = 3500
        /\ r.total_cost_usd = 7002
        /\ r.total_time_minutes = 8

\* C21: a call of find_best_route returns, whether or not every client
\* answers.
C21_RouterTerminates == (rpc = "direct") ~> (rpc = "returned")

\* what does hold: a call returns unless a client never answers
ReturnsUnlessBlocked == (rpc = "direct") ~> (rpc \in { "returned", "blocked" })

(***************************************************************************)
(* Properties of the quote endpoint.                                       *)
(***************************************************************************)
\* C9: a request whose discover_routes call produced no quotes is answered
\* with 404, not with 500.
C9_NoQuotesIs404 ==
    (apc = "responded" /\ req.discovery = "no_quotes") => status = 404

\* what does hold: such a request is answered with an error status
NoQuotesIsAnError ==
    (apc = "responded" /\ req.discovery = "no_quotes") => status \in {404, 500}

\* C10: a request without an X-API-Key header is answered with 401 by
\* get_api_key, and while and after it is served no usage counter has moved
\* and discover_routes has not been called.
C10_NoHeaderRejectedFirst ==
    (apc # "idle" \/ status # 0) =>
        (~Truthy(req.header) =>
            /\ apc \in {"auth", "responded", "idle"}
            /\ apc \in {"responded", "idle"} => status = 401
            /\ rate_count = req.rate_count0
            /\ total_requests = req.total_requests0
            /\ req.discovery = "not_called"
            /\ pc[ApiCaller] = "idle")

\* a request without the header has been served, after one that was counted
C10_Witness ==
    /\ apc = "idle" /\ status = 401
    /\ req.header = None
    /\ rate_count > 0 /\ total_requests > 0

(***************************************************************************)
(* Properties of the reliability scorer.                                   *)
(***************************************************************************)
\* a scoring has just returned, the transaction query having answered, and
\* the bridge has no transaction in the window
ScoredWithoutData ==
    /\ spc = "returned"
    /\ scall.fault # "query"
    /\ WindowTransactions(transactions, scall.bridge_name, scall.hours) = <<>>

\* C11: a scoring of a bridge with no transaction in the window returns
\* overall_score 0, rating "N/A" and trend "insufficient_data"
C11_NoDataIsExplicit ==
    ScoredWithoutData =>
        /\ score_result.overall_score = 0
        /\ score_result.rating = "N/A"
        /\ score_result.trend = "insufficient_data"
        /\ score_result.total_transactions = Some(0)

\* the bridge has transactions, all of them older than the window, and
\* metrics of both periods
C11_Witness ==
    /\ ScoredWithoutData
    /\ \E i \in 1..Len(transactions) :
          transactions[i].selected_bridge = scall.bridge_name
    /\ CalculateTrend(metrics, scall.bridge_name, scall.hours, "none") = "improving"

\* the thresholds of the ratings, in points, from the highest
RatingTable ==
    << << 90, "A+" >>, << 85, "A" >>, << 80, "A-" >>, << 75, "B+" >>, << 70, "B" >>,
       << 65, "B-" >>, << 60, "C+" >>, << 55, "C" >>, << 50, "C-" >> >>

\* the rating of the highest threshold not exceeding a score in tenths
RatingByTable(score) ==
    LET reached == { i \in 1..Len(RatingTable) : RatingTable[i][1] * 10 <= score }
    IN IF reached = {} THEN "D"
       ELSE RatingTable[CHOOSE i \in reached : \A j \in reached : i <= j][2]

\* the place of a rating, from the lowest (D, 0) to the highest (A+, 9)
RatingRank(rating) ==
    IF rating = "D" THEN 0
    ELSE Len(RatingTable)
         - (CHOOSE i \in 1..Len(RatingTable) : RatingTable[i][2] = rating) + 1

\* C12: the rating of a score is that of the highest threshold not exceeding
\* it, the thresholds being inclusive (90.0 is A+, 89.9 is A, 80.0 is A-,
\* 79.9 is B+), and no lower score has a higher rating
C12_RatingThresholds ==
    rated.rating # "" =>
        /\ rated.rating = RatingByTable(rated.score)
        /\ rated.score = 900 => rated.rating = "A+"
        /\ rated.score = 899 => rated.rating = "A"
        /\ rated.score = 800 => rated.rating = "A-"
        /\ rated.score = 799 => rated.rating = "B+"
        /\ \A lower \in Tenths :
              lower <= rated.score =>
                  RatingRank(GetRating(lower, 10)) <= RatingRank(rated.rating)

C12_Witness == rated.score = 900 /\ rated.rating = "A+"

\* C16: a scoring leaves the rows of transaction_history and of
\* bridge_performance_metrics as they were, whether it finds data, finds
\* none, or fails
C16_ScoringOnlyReads ==
    [][spc = "idle" /\ spc' = "returned" => UNCHANGED << transactions, metrics >>]_vars

\* scorings over filled tables have returned a score, a no-data result and an error
C16_Witness ==
    /\ spc = "returned"
    /\ transactions # <<>>
    /\ metrics # <<>>
    /\ score_result.rating \notin { "N/A", "ERROR" }

\* a scoring has returned the score of a bridge with transactions
Scored ==
    /\ spc = "returned"
    /\ score_result.rating \notin { "N/A", "ERROR", "" }

\* C26: each of the five component scores of a scoring, and the overall
\* score, lies between 0 and 100 (the rows of the model have non-negative
\* times and costs).
C26_ScoresWithinRange ==
    Scored =>
        /\ \A name \in DOMAIN score_result.component_scores :
              score_result.component_scores[name] \in 0..10000
        /\ DOMAIN score_result.component_scores =
              { "success_rate", "time_consistency", "cost_consistency", "uptime", "volume" }
        /\ score_result.overall_score \in 0..10000
        /\ LET txs == WindowTransactions(transactions, scall.bridge_name, scall.hours)
           IN /\ CalculateSuccessScore(txs) \in 0..100000
              /\ CalculateTimeConsistencyScore(txs) \in 0..100000
              /\ CalculateCostConsistencyScore(txs) \in 0..100000
              /\ CalculateUptimeScore(txs, scall.hours) \in 0..100000
              /\ CalculateVolumeScore(txs, transactions) \in 0..100000
              /\ OverallScore(txs, transactions, scall.hours) \in 0..10000000

\* a bridge with all the volume (ten times its share is 1000, the score
\* 100) and completion times so uneven that 100 - 2 * cv is negative (the
\* score 0)
C26_Witness ==
    /\ Scored
    /\ score_result.component_scores.volume = 10000
    /\ score_result.component_scores.time_consistency = 0
    /\ score_result.component_scores.success_rate = 10000

\* C29: the rating of a response is the one the thresholds give to the
\* overall_score of that response.
C29_RatingMatchesReportedScore ==
    Scored => score_result.rating = GetRating(score_result.overall_score, 100)

\* what does hold: the rating is the one of the score before it is rounded,
\* which is at most half a hundredth away from the one reported
RatingOfUnroundedScore ==
    Scored =>
        LET txs == WindowTransactions(transactions, scall.bridge_name, scall.hours)
            overall == OverallScore(txs, transactions, scall.hours)
        IN /\ score_result.rating = GetRating(overall, 100000)
           /\ 1000 * score_result.overall_score - overall \in -500..500

(***************************************************************************)
(* Properties of the ranking.                                              *)
(***************************************************************************)
\* the batch of the end-to-end scenario, in any order, under the default weights
ScenarioBatch ==
    /\ Len(rank_in.quotes) = 3
    /\ Range(rank_in.quotes) =
          { MkQuote(1, 5, 180, 100), MkQuote(2, 8, 90, 100), MkQuote(3, 6, 240, 100) }
    /\ rank_in.preferences = NoPrefs

ReturnedPermutation ==
    /\ ~rank_out.raised
    /\ Len(rank_out.quotes) = Len(rank_in.quotes)
    /\ \E f \in [1..Len(rank_in.quotes) -> 1..Len(rank_in.quotes)] :
          /\ \A i, j \in 1..Len(rank_in.quotes) : i # j => f[i] # f[j]
          /\ \A i \in 1..Len(rank_in.quotes) : rank_out.quotes[i] = rank_in.quotes[f[i]]

\* C27: _rank_routes returns, for every non-empty batch of quotes with
\* non-negative costs and times, a permutation of the batch, and raises
\* nothing.
C27_RankingIsPermutation ==
    rank_in.quotes # <<>> => ReturnedPermutation

\* what does hold: it does for every batch with a quote of positive cost
\* and a quote of positive time
PermutationOfPositiveBatch ==
    (rank_in.quotes # <<>> /\ MaxCost(rank_in.quotes) > 0 /\ MaxTime(rank_in.quotes) > 0)
        => ReturnedPermutation

(***************************************************************************)
(* Properties of the cache fingerprint.                                    *)
(***************************************************************************)
\* str.lower() on the chain names and token addresses of the model
LowerCase(str) ==
    CASE str = "Ethereum" -> "ethereum"
      [] str = "0xA0b8" -> "0xa0b8"
      [] str = "0xFF97" -> "0xff97"
      [] OTHER -> str

\* two requests differ at most in the letter case of their chain names and
\* token addresses
SameUpToCase(p, q) ==
    /\ LowerCase(p.source_chain) = LowerCase(q.source_chain)
    /\ LowerCase(p.destination_chain) = LowerCase(q.destination_chain)
    /\ LowerCase(p.source_token) = LowerCase(q.source_token)
    /\ LowerCase(p.destination_token) = LowerCase(q.destination_token)
    /\ p.amount = q.amount

\* the entry an earlier request left in the cache is within its TTL
KeptFresh(p) ==
    \E i \in 1..Len(quote_cache) :
        /\ quote_cache[i].key = GetCacheKey(p)
        /\ ~IsExpired(quote_cache[i], now)

\* C14: requests that differ only in the letter case of chain names or token
\* addresses have the same cache key, so that a call finding the fresh entry
\* of such a request in the cache is a hit and invokes no adapter
C14_KeyIgnoresCase ==
    \A c \in Calls :
        (JustLookedUp(c)
           /\ \E p \in Params \cup TokenCaseParams :
                 SameUpToCase(p, args[c].route_params) /\ KeptFresh(p))
        => (pc[c] = "returned" /\ invoked[c] = {})

(***************************************************************************)
(* Properties of the size of the cache.                                    *)
(***************************************************************************)
\* the call ends by caching the list it ranked
CachesItsList(c) == pc[c] = "gather" /\ pc'[c] = "returned" /\ result'[c] # <<>>

AmountsDoNotIncrease(route, amount) ==
    /\ \A h \in 1..Len(route.hops) : route.hops[h].amount_out <= route.hops[h].amount_in
    /\ route.final_amount <= amount

\* C17: in every two-hop route the router builds, each hop's amount_out is
\* at most its amount_in and final_amount is at most the requested amount
C17_AmountsNeverIncrease ==
    \A i \in 1..Len(routes) : AmountsDoNotIncrease(routes[i], rargs.amount)

\* what does hold: the amounts do not increase along the routes built for a
\* positive amount
AmountsOfPositiveRequests ==
    rargs.amount > 0 =>
        \A i \in 1..Len(routes) : AmountsDoNotIncrease(routes[i], rargs.amount)

(***************************************************************************)
(* Properties of the wait for the adapters.                                *)
(***************************************************************************)
\* the call leaves its gather: it returns a list or raises
LeavesGather(c) == pc[c] = "gather" /\ pc'[c] \in { "returned", "raised" }

\* C18: a call leaves its gather, to rank and cache and return, only when
\* every adapter task it created has finished (with a quote, with none, by
\* failing or by timing out), and a ranked list is published by such a step
\* only
C18_RanksAfterFullCohort ==
    [][/\ \A c \in Calls :
             LeavesGather(c) =>
                 \A b \in invoked[c] : tasks[c][b].st \in { "quote", "no_route", "error", "timeout" }
       /\ (published' # published \/ Len(quote_cache') > Len(quote_cache))
             => \E c \in Calls : LeavesGather(c)]_vars

\* a call returned the quote of the adapter that answered first, after the
\* other one had timed out
C18_Witness ==
    \E c \in Calls :
        /\ JustGathered(c) /\ pc[c] = "returned" /\ Len(result[c]) = 1
        /\ Len(finish_order[c]) = NumBridges
        /\ tasks[c][finish_order[c][1]].st = "quote"
        /\ tasks[c][finish_order[c][NumBridges]].st = "timeout"

\* every entry of the cache is a non-empty list, the last one a completed
\* batch of its key was ranked to
EntriesAreRankedBatches ==
    \A i \in 1..Len(quote_cache) :
        /\ quote_cache[i].quotes # <<>>
        /\ quote_cache[i].quotes = published[quote_cache[i].key].quotes
        /\ quote_cache[i].timestamp = published[quote_cache[i].key].at

\* the call leaves the gather without a quote
FindsNoQuotes(c) == pc[c] = "gather" /\ pc'[c] = "returned" /\ result'[c] = <<>>

\* the call begins and finds no entry under its key
BeginsWithoutEntry(c) ==
    /\ pc[c] = "idle" /\ pc'[c] # "idle"
    /\ KeyIndex(quote_cache, GetCacheKey(args'[c].route_params)) = 0

\* C28: every entry of the cache holds a non-empty ranked list of a
\* completed batch; a call that finds no quotes leaves the cache as it is,
\* and a call that finds no entry under its key queries the adapters.
C28_NoQuotesNotCached ==
    /\ []EntriesAreRankedBatches
    /\ [][\A c \in Calls :
             /\ FindsNoQuotes(c) => quote_cache' = quote_cache
             /\ BeginsWithoutEntry(c) =>
                   (pc'[c] = "created" /\ invoked'[c] = TasksCreated)]_vars

\* a call has found no quotes and there is no entry under its key, while
\* the list of another request is cached
C28_Witness ==
    \E c \in Calls :
        /\ JustGathered(c) /\ pc[c] = "returned" /\ result[c] = <<>>
        /\ KeyIndex(quote_cache, KeyOf(c)) = 0
        /\ quote_cache # <<>>

(***************************************************************************)
(* Properties of the cache operations of concurrent calls.                 *)
(***************************************************************************)
\* the call is between the first and the last statement of a lookup or of
\* an insert
InsideOp(c) == stmt[c] \in { "read", "expire", "size", "evict" }

\* the call executes a statement that reads or writes the cache
AccessesCache(c) ==
    /\ stmt[c] \in { "test", "read", "expire", "store", "size", "evict" }
    /\ << stmt'[c], victims'[c] >> # << stmt[c], victims[c] >>

\* C19: whatever the interleaving of the calls, a call reads or writes the
\* cache only while no other call is in the middle of a cache operation, so
\* that none sees a cache that is over its capacity or half evicted, and no
\* call fails with a KeyError
C19_CacheOpsAtomic ==
    [][/\ \A c \in Calls : stmt'[c] # "failed"
       /\ \A c \in Calls :
             AccessesCache(c) =>
                 /\ \A d \in Calls \ {c} : ~InsideOp(d)
                 /\ ~InsideOp(c) => Len(op_cache) <= CacheLimit]_vars

\* a call is in the middle of an eviction while another one, created and
\* ready to look its key up, waits for the event loop
C19_Witness ==
    \E c, d \in Calls :
        /\ c # d
        /\ stmt[c] = "evict" /\ victims[c] # <<>>
        /\ stmt[d] = "test"
        /\ KeyIndex(op_cache, op_key[d]) # 0

(***************************************************************************)
(* Properties of the webhook deliveries.                                   *)
(***************************************************************************)
\* a task sends a request
SendsRequest(r) == deliver_run[r].at # "posting" /\ deliver_run'[r].at = "posting"

\* the attempt_number of the row is at most max_retries
AttemptsWithinMaxRetries == delivery.attempt_number <= MaxRetries

\* no request is sent for a row that is marked delivered
NoRequestAfterSuccess ==
    [][\A r \in Runs : SendsRequest(r) => ~delivery.success]_vars

\* C30: the attempt_number of a delivery never exceeds max_retries, and no
\* request is sent for it once it is marked successful.
C30_AttemptsBoundedAndFinal ==
    /\ []AttemptsWithinMaxRetries
    /\ NoRequestAfterSuccess

\* what does hold: one task sends at most max_retries requests
RequestsOfOneTaskBounded ==
    \A r \in Runs :
        /\ deliver_run[r].retry_count < MaxRetries
        /\ deliver_run[r].at = "sleeping" => deliver_run[r].retry_count >= 1

====
